---- MODULE Spec2Model ----
(***************************************************************************)
(* Job orchestration and log streaming of the ESPHome build server:        *)
(* the dispatch loop (worker_manager_thread), the runner                   *)
(* (_run_esphome_task), the log classifier (LogParser) and the event       *)
(* stream served to viewers (log_stream).                                  *)
(*                                                                         *)
(* A text line is modelled as the sequence of its lexical pieces, split so *)
(* that every marker the code tests for is one piece or a run of adjacent  *)
(* pieces; the piece " " stands for a run of white space.  None (Python)   *)
(* is the empty tuple.                                                     *)
(***************************************************************************)
EXTENDS Integers, Sequences, FiniteSets, TLC

None == <<>>

\* ------------------------------------------------------------ text helpers

\* Python: pat in line
Has(line, pat) ==
    \E i \in 1..(Len(line) - Len(pat) + 1) : SubSeq(line, i, i + Len(pat) - 1) = pat

\* Python: line.startswith(pat)
StartsWith(line, pat) ==
    Len(line) >= Len(pat) /\ SubSeq(line, 1, Len(pat)) = pat

RECURSIVE LStrip(_)
LStrip(line) ==
    IF line # <<>> /\ Head(line) = " " THEN LStrip(Tail(line)) ELSE line

RECURSIVE RStrip(_)
RStrip(line) ==
    IF line # <<>> /\ line[Len(line)] = " "
    THEN RStrip(SubSeq(line, 1, Len(line) - 1))
    ELSE line

\* Python: line.strip()
Strip(line) == RStrip(LStrip(line))

\* pieces matched by the regular expressions' groups
Bars == {"[==  ]", "[====]"}
PercentDec == {"42.0%", "18.0%"}
PercentInt == {"50%"}

\* progress_bar_regex.match(line): ^(RAM|Flash):\s*(\[.*?\])\s*(\d+\.\d+%)
progress_bar_regex(line) ==
    /\ Len(line) >= 4
    /\ line[1] \in {"RAM", "Flash"}
    /\ line[2] = ":"
    /\ line[3] \in Bars
    /\ line[4] \in PercentDec

\* download_bar_regex.match(line): \[\?25l(Downloading|Unpacking)\s*(\[.*?\])\s*(\d+%)
download_bar_regex(line) ==
    /\ Len(line) >= 4
    /\ line[1] = "[?25l"
    /\ line[2] \in {"Downloading", "Unpacking"}
    /\ line[3] \in Bars
    /\ line[4] \in PercentInt

Milestone(name) == [type |-> "milestone", data |-> name]

\* services.py _parse_log_line_type: ordered rules, first match wins
parse_log_line_type(line) ==
    IF Has(line, <<"Successfully", "uploaded">>) \/ StartsWith(line, <<"=====", "[SUCCESS]">>)
    THEN Milestone(<<"Upload Succeeded">>)
    ELSE IF Has(line, <<"[SUCCESS]">>) /\ Has(line, <<"Successfully", "created">>)
    THEN Milestone(<<"Build Succeeded">>)
    ELSE IF \/ Has(line, <<"[FAILED]">>)
            \/ (Has(line, <<"error">>) /\ Has(line, <<"compilation", "terminated">>))
            \/ StartsWith(line, <<"=====", "[FAILED]">>)
    THEN Milestone(<<"Build Failed">>)
    ELSE IF Has(line, <<"ERROR">>) /\ Has(line, <<"Authentication", "invalid">>)
    THEN Milestone(<<"Upload Failed: Authentication Invalid">>)
    ELSE IF Has(line, <<"Error", ":">>) /\ Has(line, <<"Could", "not", "find">>) /\ Has(line, <<".local">>)
    THEN Milestone(<<"Upload Failed: Host not found">>)
    ELSE IF Has(line, <<"ERROR">>) /\ Has(line, <<"Connecting", "to">>)
    THEN Milestone(<<"Upload Failed:">> \o Strip(line))
    ELSE IF StartsWith(line, <<"Error", ":">>)
    THEN Milestone(<<"Error", ":">> \o Strip(SubSeq(line, 3, Len(line))))
    ELSE IF progress_bar_regex(line)
    THEN [type |-> "progress_bar",
          data |-> [name |-> line[1], bar |-> line[3], percent |-> line[4]]]
    ELSE IF download_bar_regex(line)
    THEN [type |-> "progress_bar",
          data |-> [name |-> line[2], bar |-> line[3], percent |-> line[4]]]
    ELSE IF Has(line, <<"Looking", "for", "upload", "port...">>)
    THEN Milestone(<<"Finding Device...">>)
    ELSE IF Has(line, <<"Uploading">>) /\ Has(line, <<".bin">>)
    THEN Milestone(<<"Uploading Firmware">>)
    ELSE IF Has(line, <<"Connecting", "to">>)
    THEN Milestone(Strip(line))
    ELSE IF \/ Has(line, <<"merging", "binaries", "into">>)
            \/ Has(line, <<"esp32_copy_ota_bin">>)
            \/ (Has(line, <<"Successfully", "created">>) /\ Has(line, <<".bin">>))
    THEN Milestone(<<"Creating Final Binaries">>)
    ELSE IF StartsWith(line, <<"RAM", ":">>)
    THEN Milestone(<<"Calculating Firmware Size">>)
    ELSE IF Has(line, <<"Linking", ".pioenvs">>) /\ Has(line, <<"firmware.elf">>)
    THEN Milestone(<<"Linking Firmware">>)
    ELSE IF Has(line, <<"Linking", ".pioenvs">>) /\ Has(line, <<"bootloader.elf">>)
    THEN Milestone(<<"Linking Bootloader">>)
    ELSE IF Has(line, <<"Generating", "project", "linker", "script">>)
    THEN Milestone(<<"Generating Linker Script">>)
    ELSE IF Has(line, <<"Compiling", ".pioenvs">>) \/ Has(line, <<"Archiving", ".pioenvs">>)
    THEN [type |-> "compile_archive_line"]
    ELSE IF \/ Has(line, <<"scons", ":">>) \/ Has(line, <<"Platformio", ":">>)
            \/ Has(line, <<"NOTICE", ":">>) \/ Has(line, <<"Resolving">>)
            \/ StartsWith(line, <<"Platform", "Manager", ":", "Installing">>)
            \/ StartsWith(line, <<"Tool", "Manager", ":", "Installing">>)
            \/ StartsWith(line, <<"Library", "Manager", ":", "Installing">>)
    THEN Milestone(<<"Installing Dependencies">>)
    ELSE IF Has(line, <<"Generating", "C++", "code">>)
    THEN Milestone(<<"Generating C++">>)
    ELSE IF Has(line, <<"Running", ":", "platformio">>) \/ Has(line, <<"Initializing", "Platformio">>)
    THEN Milestone(<<"Initializing PlatformIO">>)
    ELSE IF Has(line, <<"Validating">>)
    THEN Milestone(<<"Validating Config">>)
    ELSE [type |-> "log"]

\* ------------------------------------------------------------- LogParser

CompileSummary == "Compiling C/C++ Sources & Archiving"

\* LogParser.__init__; inst names the instance, a step identifier
\* f"step-{uuid.uuid4().hex}" is the pair <<inst, n>> of the instance and the
\* number of identifiers it has drawn: every draw gives a value no other draw gives.
LogParser(inst) ==
    [current_milestone |-> <<"Starting...">>,
     in_compile_step   |-> FALSE,
     compile_count     |-> 0,
     summary_id        |-> None,
     milestone_id      |-> None,
     inst              |-> inst,
     drawn             |-> 0]

\* an identifier source that gives the same value at every draw
uuid4_repeat(p) == <<p.inst, 1>>

uuid4(p) == <<p.inst, p.drawn + 1>>

\* LogParser._start_milestone(name)
start_milestone(p, name) ==
    LET id == uuid4(p) IN
    [parser |-> [p EXCEPT !.current_milestone = name, !.milestone_id = id,
                          !.drawn = p.drawn + 1],
     events |-> << [event |-> "milestone", milestone |-> name, id |-> id] >>]

\* a _close_compile_step that resets the count before it builds the summary text
close_compile_step_reset_first(p, interrupted) ==
    IF p.in_compile_step
    THEN [parser |-> [p EXCEPT !.in_compile_step = FALSE, !.compile_count = 0],
          events |-> << [event |-> "update_summary", target_id |-> p.summary_id,
                         text |-> <<CompileSummary, 0, "files">>] >>]
    ELSE [parser |-> p, events |-> <<>>]

\* LogParser._close_compile_step(interrupted)
close_compile_step(p, interrupted) ==
    IF p.in_compile_step
    THEN [parser |-> [p EXCEPT !.in_compile_step = FALSE, !.compile_count = 0],
          events |-> << [event |-> "update_summary", target_id |-> p.summary_id,
                         text |-> IF interrupted
                                  THEN <<CompileSummary, p.compile_count, "files", "- Interrupted">>
                                  ELSE <<CompileSummary, p.compile_count, "files">>] >>]
    ELSE [parser |-> p, events |-> <<>>]

SummaryCadence == 25

\* no milestone keeps its line back
Suppressed_none == {}

\* the milestones whose line parse_line does not emit
Suppressed ==
    { <<"Upload Succeeded">>, <<"Build Succeeded">>, <<"Upload Failed: Authentication Invalid">> }

\* a close-then-open pair that opens the milestone whether or not it is the current one
switch_milestone_always(p, name) ==
    LET c == close_compile_step(p, FALSE)
        s == start_milestone(c.parser, name)
    IN [parser |-> s.parser, events |-> c.events \o s.events]

\* the close-then-open pair of parse_line's milestone and progress branches
switch_milestone(p, name) ==
    IF p.current_milestone # name
    THEN LET c == close_compile_step(p, FALSE)
             s == start_milestone(c.parser, name)
         IN [parser |-> s.parser, events |-> c.events \o s.events]
    ELSE [parser |-> p, events |-> <<>>]

\* LogParser.parse_line(line)
parse_line(p, line) ==
    LET r == parse_log_line_type(line)
        payload == [event |-> "log", line |-> line]
    IN
    IF r.type = "compile_archive_line"
    THEN IF ~p.in_compile_step
         THEN LET c == close_compile_step(p, FALSE)
                  id == uuid4(c.parser)
              IN [parser |-> [c.parser EXCEPT !.in_compile_step = TRUE,
                                              !.compile_count = 1,
                                              !.current_milestone = <<CompileSummary>>,
                                              !.summary_id = id,
                                              !.drawn = c.parser.drawn + 1],
                  events |-> c.events \o
                             << [event |-> "milestone", line |-> line,
                                 milestone |-> <<CompileSummary>>, id |-> id] >>]
         ELSE LET n == p.compile_count + 1 IN
              [parser |-> [p EXCEPT !.compile_count = n],
               events |-> (IF n % SummaryCadence = 0
                           THEN << [event |-> "update_summary", target_id |-> p.summary_id,
                                    text |-> <<CompileSummary, n, "files...">>] >>
                           ELSE <<>>) \o <<payload>>]
    ELSE IF r.type = "milestone"
    THEN LET s == switch_milestone(p, r.data) IN
         [parser |-> s.parser,
          events |-> s.events \o (IF r.data \notin Suppressed THEN <<payload>> ELSE <<>>)]
    ELSE IF r.type = "progress_bar"
    THEN LET bucket == IF r.data.name \in {"RAM", "Flash"}
                       THEN <<"Calculating Firmware Size">>
                       ELSE IF r.data.name \in {"Downloading", "Unpacking"}
                       THEN <<"Installing Dependencies">>
                       ELSE p.current_milestone
             s == switch_milestone(p, bucket)
         IN [parser |-> s.parser,
             events |-> s.events \o
                        << [event |-> "progress", line |-> line, data |-> r.data] >>]
    ELSE [parser |-> p, events |-> <<payload>>]

\* a finalize() that returns the closing summary and leaves the aggregation open
finalize_keep_open(p) == [parser |-> p, events |-> close_compile_step(p, FALSE).events]

\* LogParser.finalize()
finalize(p) == close_compile_step(p, FALSE)

\* ------------------------------------------------------------ bounds

MaxJobs == 3
MaxLines == 1
MaxStreamLines == 1
MaxViewers == 1
MaxRequests == 2
\* the capacity the listener queues are measured against; the code gives them none
\* (queue.Queue() without maxsize), and a longer job exceeds a larger one the same way
QueueCapacity == 3
\* the classifier on its own: a run of up to MaxRepeat compile lines, then up to
\* MaxTail lines of any kind, then up to MaxFinalize calls of finalize()
MaxRepeat == 50
MaxTail == 2
MaxFinalize == 2
\* the trailing window: a process that prints up to MaxOutput lines, of which the first
\* MaxHead are of any kind and the later ones plain
MaxHead == 2
MaxOutput == 12

\* ------------------------------------------------------------ configuration

\* app_config.py: max_concurrent_jobs, fallback 2
MAX_CONCURRENT_JOBS == 2

\* jobs.py: if len(last_lines) > 10: last_lines.pop(0)
WindowSize == 10

APP_VERSION == "v17.0 (project-caching)"

\* os.path.join(config.PROJECTS_DIR, device_name)
ProjectDir(device_name) == <<"projects/", device_name>>

\* f"{job_id}-{device_name}-firmware.bin"
final_binary_name(job_id, device_name) == <<ToString(job_id), "-", device_name, "-firmware.bin">>

VARIABLES
    JOBS_DB,              \* job id -> job record (jobs_state.JOBS_DB)
    job_queue,            \* queue.Queue of job ids (jobs_state.job_queue)
    enqueued,             \* ids ever handed to enqueue
    requests,             \* history: job id -> number of times it was handed to enqueue
    worker_semaphore,     \* value of threading.Semaphore(MAX_CONCURRENT_JOBS)
    manager,              \* position of worker_manager_thread
    task,                 \* job id -> locals of its _run_esphome_task thread
    log_files,            \* job id -> transcript file: its lines on disk and in the write buffer
    build_dirs,           \* device names whose build directory holds firmware.bin
    binaries,             \* names of the files in config.BINARIES_DIR
    JOB_LOG_BROADCASTER,  \* job id -> list of listener queues (named by their viewer)
    viewer,               \* viewer id -> state of one log_stream request
    published,            \* history: job id -> every event passed to _broadcast_log
    released,             \* history: job id -> number of worker_semaphore.release() by its runner
    classifier,           \* a LogParser instance driven on its own
    fed_lines,            \* history: the lines passed to classifier.parse_line, in order
    returned,             \* the list of events the last call on classifier returned
    out,                  \* history: every event classifier returned, in order
    finalized             \* history: number of classifier.finalize() calls

classifying == <<classifier, fed_lines, returned, out, finalized>>

vars == <<JOBS_DB, job_queue, enqueued, requests, worker_semaphore, manager, task, log_files,
          build_dirs, binaries, JOB_LOG_BROADCASTER, viewer, published, released, classifying>>

orchestration == <<JOBS_DB, job_queue, enqueued, requests, worker_semaphore, manager, task, log_files,
                   build_dirs, binaries, published, released, classifying>>

Terminal == {"success", "failed"}

Init ==
    /\ JOBS_DB = << >>
    /\ job_queue = << >>
    /\ enqueued = {}
    /\ requests = << >>
    /\ worker_semaphore = MAX_CONCURRENT_JOBS
    /\ manager = [pc |-> "get", job_id |-> 0]
    /\ task = << >>
    /\ log_files = << >>
    /\ build_dirs = {}
    /\ binaries = {}
    /\ JOB_LOG_BROADCASTER = << >>
    /\ viewer = << >>
    /\ published = << >>
    /\ released = << >>
    /\ classifier = LogParser(0)
    /\ fed_lines = << >>
    /\ returned = << >>
    /\ out = << >>
    /\ finalized = 0

\* f[k] := v, adding k to the domain when it is new (dict assignment)
Put(f, k, v) == [i \in DOMAIN f \cup {k} |-> IF i = k THEN v ELSE f[i]]

\* del f[k]
Del(f, k) == [i \in DOMAIN f \ {k} |-> f[i]]

\* ------------------------------------------------------------ submission

\* job ids are uuid4 strings: every submission draws an id never used before
FreshId == Cardinality(DOMAIN JOBS_DB \cup enqueued) + 1

\* an enqueue that appends whatever it is given
enqueue_always(q, seen, job_id) == Append(q, job_id)

\* enqueue(jobId): idempotent, FIFO
enqueue(q, seen, job_id) == IF job_id \in seen THEN q ELSE Append(q, job_id)

TimeFields == {"submitted_time", "start_time", "end_time"}

\* datetime.datetime.now() as far as one job's record can tell: a reading later than
\* every reading the record holds
now(rec) == << Cardinality({f \in TimeFields : rec[f] # None}) + 1 >>

\* (end_time - start_time).total_seconds()
total_seconds(end_time, start_time) == << end_time[1] - start_time[1] >>

\* routes.py handle_compile_request: the record written for a compile job
CompileRecord(job_id, device_name) ==
    [job_id |-> job_id, status |-> "pending", job_type |-> "compile",
     target_device |-> None, api_password |-> None,
     project_dir |-> ProjectDir(device_name), device_name |-> device_name,
     submitted_time |-> << 1 >>, start_time |-> None, end_time |-> None,
     duration |-> None,
     binary_file |-> None, error |-> None]

\* routes.py handle_upload_page: the record written for an upload job
UploadRecord(job_id, orig, target_device, api_password) ==
    [job_id |-> job_id, status |-> "pending", job_type |-> "upload",
     target_device |-> target_device, api_password |-> api_password,
     project_dir |-> orig.project_dir, device_name |-> orig.device_name,
     submitted_time |-> << 1 >>, start_time |-> None, end_time |-> None,
     duration |-> None,
     binary_file |-> None, error |-> None]

SubmitCompile(ids, devices) ==
    /\ FreshId \in ids
    /\ \E d \in devices :
          JOBS_DB' = Put(JOBS_DB, FreshId, CompileRecord(FreshId, d))
    /\ job_queue' = enqueue(job_queue, enqueued, FreshId)
    /\ enqueued' = enqueued \cup {FreshId}
    /\ requests' = Put(requests, FreshId, 1)
    /\ UNCHANGED <<classifying, worker_semaphore, manager, task, log_files, build_dirs, binaries,
                   JOB_LOG_BROADCASTER, viewer, published, released>>

SubmitUpload(ids, targets, passwords) ==
    /\ FreshId \in ids
    /\ \E o \in DOMAIN JOBS_DB, t \in targets, pw \in passwords :
          /\ JOBS_DB[o].status = "success"
          /\ JOBS_DB' = Put(JOBS_DB, FreshId, UploadRecord(FreshId, JOBS_DB[o], t, pw))
    /\ job_queue' = enqueue(job_queue, enqueued, FreshId)
    /\ enqueued' = enqueued \cup {FreshId}
    /\ requests' = Put(requests, FreshId, 1)
    /\ UNCHANGED <<classifying, worker_semaphore, manager, task, log_files, build_dirs, binaries,
                   JOB_LOG_BROADCASTER, viewer, published, released>>

\* an id reaches the queue although the store holds no record of it
EnqueueUnknown(ids) ==
    /\ FreshId \in ids
    /\ job_queue' = enqueue(job_queue, enqueued, FreshId)
    /\ enqueued' = enqueued \cup {FreshId}
    /\ requests' = Put(requests, FreshId, 1)
    /\ UNCHANGED <<JOBS_DB, classifying, worker_semaphore, manager, task, log_files, build_dirs, binaries,
                   JOB_LOG_BROADCASTER, viewer, published, released>>

\* enqueue(jobId) called again for an id it was given before, at most max times per id
Resubmit(ids, max) ==
    \E j \in ids \cap enqueued :
        /\ requests[j] < max
        /\ job_queue' = enqueue(job_queue, enqueued, j)
        /\ requests' = [requests EXCEPT ![j] = @ + 1]
        /\ UNCHANGED <<JOBS_DB, enqueued, classifying, worker_semaphore, manager, task, log_files,
                       build_dirs, binaries, JOB_LOG_BROADCASTER, viewer, published,
                       released>>

\* ------------------------------------------------------------ worker_manager_thread

\* job_id = job_queue.get()
\* a loop that takes the id enqueued last
ManagerGet_lifo ==
    /\ manager.pc = "get"
    /\ job_queue # << >>
    /\ manager' = [pc |-> "acquire", job_id |-> job_queue[Len(job_queue)]]
    /\ job_queue' = SubSeq(job_queue, 1, Len(job_queue) - 1)
    /\ UNCHANGED <<JOBS_DB, enqueued, requests, classifying, worker_semaphore, task, log_files, build_dirs, binaries,
                   JOB_LOG_BROADCASTER, viewer, published, released>>

ManagerGet ==
    /\ manager.pc = "get"
    /\ job_queue # << >>
    /\ manager' = [pc |-> "acquire", job_id |-> Head(job_queue)]
    /\ job_queue' = Tail(job_queue)
    /\ UNCHANGED <<JOBS_DB, enqueued, requests, classifying, worker_semaphore, task, log_files, build_dirs, binaries,
                   JOB_LOG_BROADCASTER, viewer, published, released>>

\* a semaphore whose acquire takes no slot
acquire_free(value) == value

\* threading.Semaphore.acquire(): blocks while the value is 0
acquire(value) == value - 1

\* threading.Semaphore.release()
release(value) == value + 1

\* worker_semaphore.acquire()
ManagerAcquire ==
    /\ manager.pc = "acquire"
    /\ worker_semaphore > 0
    /\ worker_semaphore' = acquire(worker_semaphore)
    /\ manager' = [manager EXCEPT !.pc = "lookup"]
    /\ UNCHANGED <<JOBS_DB, job_queue, enqueued, requests, classifying, task, log_files, build_dirs, binaries,
                   JOB_LOG_BROADCASTER, viewer, published, released>>

\* if not job_details: worker_semaphore.release(); continue
\* a discard that keeps the slot
ManagerDiscard_keep_slot ==
    /\ manager.pc = "lookup"
    /\ manager.job_id \notin DOMAIN JOBS_DB
    /\ manager' = [pc |-> "get", job_id |-> 0]
    /\ UNCHANGED <<JOBS_DB, job_queue, enqueued, requests, classifying, worker_semaphore, task, log_files,
                   build_dirs, binaries, JOB_LOG_BROADCASTER, viewer, published, released>>

ManagerDiscard ==
    /\ manager.pc = "lookup"
    /\ manager.job_id \notin DOMAIN JOBS_DB
    /\ worker_semaphore' = release(worker_semaphore)
    /\ manager' = [pc |-> "get", job_id |-> 0]
    /\ UNCHANGED <<JOBS_DB, job_queue, enqueued, requests, classifying, task, log_files, build_dirs, binaries,
                   JOB_LOG_BROADCASTER, viewer, published, released>>

\* the locals of a runner thread as compile_thread.start() creates it
NewTask(job) ==
    [pc |-> "start", job_type |-> job.job_type, target_device |-> job.target_device,
     api_password |-> job.api_password, project_dir |-> job.project_dir,
     device_name |-> job.device_name, parser |-> None, last_lines |-> << >>,
     nread |-> 0, returncode |-> -1, source_binary_path |-> None, e |-> None]

\* compile_thread = threading.Thread(target=_run_esphome_task, ...); compile_thread.start()
\* a launch that waits until the runners launched before have ended
ManagerLaunch_serial ==
    /\ manager.pc = "lookup"
    /\ manager.job_id \in DOMAIN JOBS_DB
    /\ \A k \in DOMAIN task : task[k].pc = "done"
    /\ task' = Put(task, manager.job_id, NewTask(JOBS_DB[manager.job_id]))
    /\ manager' = [pc |-> "get", job_id |-> 0]
    /\ UNCHANGED <<JOBS_DB, job_queue, enqueued, requests, classifying, worker_semaphore, log_files, build_dirs,
                   binaries, JOB_LOG_BROADCASTER, viewer, published, released>>

ManagerLaunch ==
    /\ manager.pc = "lookup"
    /\ manager.job_id \in DOMAIN JOBS_DB
    /\ task' = Put(task, manager.job_id, NewTask(JOBS_DB[manager.job_id]))
    /\ manager' = [pc |-> "get", job_id |-> 0]
    /\ UNCHANGED <<JOBS_DB, job_queue, enqueued, requests, classifying, worker_semaphore, log_files, build_dirs,
                   binaries, JOB_LOG_BROADCASTER, viewer, published, released>>

\* compile_thread.start() raises (no thread can be started): except Exception: log, loop on
ManagerLaunchFail ==
    /\ manager.pc = "lookup"
    /\ manager.job_id \in DOMAIN JOBS_DB
    /\ manager' = [pc |-> "get", job_id |-> 0]
    /\ UNCHANGED <<JOBS_DB, job_queue, enqueued, requests, classifying, worker_semaphore, task, log_files, build_dirs,
                   binaries, JOB_LOG_BROADCASTER, viewer, published, released>>

\* ------------------------------------------------------------ _broadcast_log

\* a broadcaster that puts the events on every registered queue, whatever its job
broadcast_log_all(reg, vw, job_id, evs) ==
    [v \in DOMAIN vw |->
        IF \E k \in DOMAIN reg : \E i \in 1..Len(reg[k]) : reg[k][i] = v
        THEN [vw[v] EXCEPT !.queue = @ \o evs]
        ELSE vw[v]]

\* _broadcast_log for each event of evs in turn: q.put_nowait on every queue listed for job_id
\* (queue.Queue() has no maxsize, so put_nowait never raises queue.Full)
broadcast_log(reg, vw, job_id, evs) ==
    [v \in DOMAIN vw |->
        IF job_id \in DOMAIN reg /\ \E i \in 1..Len(reg[job_id]) : reg[job_id][i] = v
        THEN [vw[v] EXCEPT !.queue = vw[v].queue \o evs]
        ELSE vw[v]]

\* the history of everything passed to _broadcast_log for job_id
Publish(job_id, evs) ==
    /\ viewer' = broadcast_log(JOB_LOG_BROADCASTER, viewer, job_id, evs)
    /\ published' = Put(published, job_id,
                        (IF job_id \in DOMAIN published THEN published[job_id] ELSE << >>) \o evs)

\* ------------------------------------------------------------ transcript file

\* open(log_path, 'w')
OpenW == [disk |-> << >>, buf |-> << >>]

\* log_file.write(lines): into the write buffer
Write(f, lines) == [f EXCEPT !.buf = f.buf \o lines]

\* log_file.flush(), and the flush of close()
Flush(f) == [disk |-> f.disk \o f.buf, buf |-> << >>]

\* close() fails while flushing: what was buffered does not reach the disk
Lose(f) == [f EXCEPT !.buf = << >>]

Upper(job_type) == IF job_type = "upload" THEN "UPLOAD" ELSE "COMPILE"

\* the command line of the two job kinds
local_command(t) ==
    IF t.job_type = "upload"
    THEN <<"platformio", "run", "--target", "upload", "--project-dir">> \o t.project_dir
         \o <<"--environment", t.device_name, "--upload-port">> \o t.target_device
    ELSE <<"esphome", "compile", "main.yaml">>

Dashes == <<"---", "-------------------------------------">>

\* the header block written before the process starts
Header(job_id, t) ==
    << <<"---", "RUNNING SCRIPT VERSION", APP_VERSION, "---">>,
       <<"---", "Starting", Upper(t.job_type), "job", ToString(job_id), "for project",
         t.device_name, "---">> >>
    \o (IF t.api_password # None
        THEN << <<"Env", ":", "ESPHOME_API_PASSWORD set to '********'">> >>
        ELSE << >>)
    \o << <<"Command", ":">> \o local_command(t),
          <<"Project", "Dir", ":">> \o t.project_dir,
          <<"PlatformIO", "Cache", ":", "platformio_cache">>,
          Dashes,
          << >> >>

RcText(rc) == IF rc = 0 THEN "0" ELSE "1"

\* the trailer block written after process.wait()
Trailer(rc) ==
    << << >>, Dashes, <<"---", "Job finished at", "T", "---">>,
       <<"Return", "Code", ":", RcText(rc)>>,
       <<"Duration", ":", "0.00 seconds">> >>

\* ------------------------------------------------------------ _run_esphome_task

\* JOBS_DB[job_id]["status"] = "running"; job type and command; parser = LogParser()
\* a start that gives the job an empty registry entry
RunnerStart_reset_registry(j) ==
    /\ j \in DOMAIN task /\ task[j].pc = "start"
    /\ JOBS_DB' = [JOBS_DB EXCEPT ![j].status = "running",
                                  ![j].start_time = now(JOBS_DB[j])]
    /\ task' = [task EXCEPT ![j].pc = "open",
                            ![j].job_type =
                                IF task[j].job_type = "upload" /\ task[j].target_device # None
                                THEN "upload" ELSE "compile",
                            ![j].parser = LogParser(<<"live", j>>)]
    /\ JOB_LOG_BROADCASTER' = Put(JOB_LOG_BROADCASTER, j, << >>)
    /\ UNCHANGED <<job_queue, enqueued, requests, classifying, worker_semaphore, manager, log_files, build_dirs,
                   binaries, viewer, published, released>>

\* a start that keeps the job type of the record, whatever the target
RunnerStart_keep_kind(j) ==
    /\ j \in DOMAIN task /\ task[j].pc = "start"
    /\ JOBS_DB' = [JOBS_DB EXCEPT ![j].status = "running",
                                  ![j].start_time = now(JOBS_DB[j])]
    /\ task' = [task EXCEPT ![j].pc = "open",
                            ![j].parser = LogParser(<<"live", j>>)]
    /\ UNCHANGED <<job_queue, enqueued, requests, classifying, worker_semaphore, manager, log_files, build_dirs,
                   binaries, JOB_LOG_BROADCASTER, viewer, published, released>>

RunnerStart(j) ==
    /\ j \in DOMAIN task /\ task[j].pc = "start"
    /\ JOBS_DB' = [JOBS_DB EXCEPT ![j].status = "running",
                                  ![j].start_time = now(JOBS_DB[j])]
    /\ task' = [task EXCEPT ![j].pc = "open",
                            ![j].job_type =
                                IF task[j].job_type = "upload" /\ task[j].target_device # None
                                THEN "upload" ELSE "compile",
                            ![j].parser = LogParser(<<"live", j>>)]
    /\ UNCHANGED <<job_queue, enqueued, requests, classifying, worker_semaphore, manager, log_files, build_dirs,
                   binaries, JOB_LOG_BROADCASTER, viewer, published, released>>

\* the line fed to the parser before the process starts
Announcement(t) ==
    IF t.job_type = "compile"
    THEN <<"Validating", "Config">>
    ELSE <<"Starting", "Upload", "to">> \o t.target_device

\* with open(log_path, 'w'): header, flush, announcement; subprocess.Popen; last_lines = []
RunnerOpen(j) ==
    /\ j \in DOMAIN task /\ task[j].pc = "open"
    /\ LET r == parse_line(task[j].parser, Announcement(task[j])) IN
         /\ log_files' = Put(log_files, j, Flush(Write(OpenW, Header(j, task[j]))))
         /\ task' = [task EXCEPT ![j].pc = "read", ![j].parser = r.parser,
                                 ![j].last_lines = << >>]
         /\ Publish(j, r.events)
    /\ UNCHANGED <<JOBS_DB, job_queue, enqueued, requests, classifying, worker_semaphore, manager, build_dirs,
                   binaries, JOB_LOG_BROADCASTER, released>>

\* a window that never drops its oldest line
Window_unbounded(last_lines, line) == Append(last_lines, line)

\* last_lines.append(line_stripped); if len(last_lines) > 10: last_lines.pop(0)
Window(last_lines, line) ==
    LET w == Append(last_lines, line) IN
    IF Len(w) > WindowSize THEN Tail(w) ELSE w

\* one iteration of: for line in process.stdout
RunnerReadLine(j, lines, max) ==
    /\ j \in DOMAIN task /\ task[j].pc = "read"
    /\ task[j].nread < max
    /\ \E line \in lines :
         LET line_stripped == Strip(line)
             r == parse_line(task[j].parser, line_stripped)
         IN
         /\ log_files' = [log_files EXCEPT ![j] = Flush(Write(@, <<line>>))]
         /\ IF line_stripped = << >>
            THEN /\ task' = [task EXCEPT ![j].nread = @ + 1]
                 /\ UNCHANGED <<viewer, published>>
            ELSE /\ task' = [task EXCEPT ![j].nread = @ + 1,
                                         ![j].last_lines = Window(@, line_stripped),
                                         ![j].parser = r.parser]
                 /\ Publish(j, r.events)
    /\ UNCHANGED <<JOBS_DB, job_queue, enqueued, requests, classifying, worker_semaphore, manager, build_dirs,
                   binaries, JOB_LOG_BROADCASTER, released>>

\* end of output: process.wait(), trailer, parser.finalize(); an outcome is the exit
\* code of the process and whether it left firmware.bin in the build directory
RunnerExit(j, outcomes) ==
    /\ j \in DOMAIN task /\ task[j].pc = "read"
    /\ \E o \in outcomes :
         LET rc == o[1]
             built == o[2]
             r == finalize(task[j].parser) IN
         /\ task' = [task EXCEPT ![j].pc = "decide", ![j].returncode = rc,
                                 ![j].parser = r.parser]
         /\ build_dirs' = IF built THEN build_dirs \cup {task[j].device_name}
                                   ELSE build_dirs \ {task[j].device_name}
         /\ log_files' = [log_files EXCEPT ![j] = Write(@, Trailer(rc))]
         /\ Publish(j, r.events)
    /\ UNCHANGED <<JOBS_DB, job_queue, enqueued, requests, classifying, worker_semaphore, manager, binaries,
                   JOB_LOG_BROADCASTER, released>>

\* services.py _find_firmware_bin: the path of firmware.bin under the build directory, or None
find_firmware_bin(dirs, project_dir, device_name) ==
    IF device_name \in dirs
    THEN project_dir \o <<".esphome/build/", device_name, "/firmware.bin">>
    ELSE None

\* any("Successfully uploaded" in l or "===== [SUCCESS]" in l for l in last_lines)
is_upload_success(last_lines) ==
    \E i \in 1..Len(last_lines) :
        \/ Has(last_lines[i], <<"Successfully", "uploaded">>)
        \/ Has(last_lines[i], <<"=====", "[SUCCESS]">>)

\* a runner that never looks for the authentication marker
is_auth_fail_never(last_lines) == FALSE

\* any("Authentication invalid" in l for l in last_lines)
is_auth_fail(last_lines) ==
    \E i \in 1..Len(last_lines) : Has(last_lines[i], <<"Authentication", "invalid">>)

\* a success test that trusts the exit code alone
SuccessTest_exit_code_only(t) == t.returncode = 0

\* process.returncode == 0 and (is_upload_success or job_type == "compile")
SuccessTest(t) ==
    t.returncode = 0 /\ (is_upload_success(t.last_lines) \/ t.job_type = "compile")

\* a failure that stores no message
GenericError_none == None

GenericError == <<"Process failed. Check log for details.">>
AuthError == <<"Upload failed: Authentication Invalid.">>
NotFoundError(project_dir) == <<"Source binary not found in">> \o project_dir

\* the status decision of _run_esphome_task: what is stored in the record, written to the
\* transcript and fed to the parser, given the path _find_firmware_bin returned
Decide(job_id, t, source_binary_path) ==
    IF SuccessTest(t)
    THEN IF source_binary_path # None
         THEN [status |-> "success",
               binary_file |-> final_binary_name(job_id, t.device_name),
               error |-> None,
               written |-> << <<"Status", ":", "SUCCESS">> >>,
               say |-> IF t.job_type = "compile"
                       THEN << <<"[SUCCESS]", "Build", "Succeeded">> >> ELSE << >>]
         ELSE [status |-> "failed",
               binary_file |-> None,
               error |-> NotFoundError(t.project_dir),
               written |-> << <<"Status", ":", "SUCCESS">>,
                              <<"Status", ":", "FAILED", "(">> \o NotFoundError(t.project_dir)
                                  \o <<")">> >>,
               say |-> << <<"[FAILED]", "Error", ":">> \o NotFoundError(t.project_dir) >>]
    ELSE [status |-> "failed",
          binary_file |-> None,
          error |-> IF is_auth_fail(t.last_lines) THEN AuthError ELSE GenericError,
          written |-> << <<"Status", ":", "FAILED">> >>,
          say |-> << <<"[FAILED]", "Error", ":", "Process returned code", RcText(t.returncode)>> >>]

\* with JOBS_DB_LOCK: the status decision, the copy of the artifact, the closing event
\* job_details["end_time"], job_details["duration"]: the first writes of the decision
Finish(rec) ==
    [rec EXCEPT !.end_time = now(rec),
                !.duration = total_seconds(now(rec), rec.start_time)]

RunnerDecide(j) ==
    /\ j \in DOMAIN task /\ task[j].pc = "decide"
    /\ LET t == task[j]
           source_binary_path ==
               IF SuccessTest(t)
               THEN find_firmware_bin(build_dirs, t.project_dir, t.device_name) ELSE None
           d == Decide(j, t, source_binary_path)
           r == IF d.say = << >> THEN [parser |-> t.parser, events |-> << >>]
                                 ELSE parse_line(t.parser, d.say[1])
       IN
       /\ JOBS_DB' = [JOBS_DB EXCEPT
                         ![j] = [Finish(@) EXCEPT
                                    !.status = d.status,
                                    !.binary_file =
                                        IF d.status = "success" THEN d.binary_file ELSE @,
                                    !.error = IF d.status = "failed" THEN d.error ELSE @]]
       /\ binaries' = IF d.status = "success" THEN binaries \cup {d.binary_file} ELSE binaries
       /\ log_files' = [log_files EXCEPT ![j] = Write(@, d.written)]
       /\ task' = [task EXCEPT ![j].pc = "close", ![j].parser = r.parser,
                               ![j].source_binary_path = source_binary_path]
       /\ Publish(j, r.events)
    /\ UNCHANGED <<job_queue, enqueued, requests, classifying, worker_semaphore, manager, build_dirs,
                   JOB_LOG_BROADCASTER, released>>

\* leaving the with block: log_file.close() flushes the buffered trailer and status line
RunnerClose(j) ==
    /\ j \in DOMAIN task /\ task[j].pc = "close"
    /\ log_files' = [log_files EXCEPT ![j] = Flush(@)]
    /\ task' = [task EXCEPT ![j].pc = "finally"]
    /\ UNCHANGED <<JOBS_DB, job_queue, enqueued, requests, classifying, worker_semaphore, manager, build_dirs,
                   binaries, JOB_LOG_BROADCASTER, viewer, published, released>>

\* an exception escapes the try block at one of the places in faults: "open", open()
\* fails; "read", Popen, reading the output or writing a line fails; "copy", shutil.copy
\* fails after "Status: SUCCESS" was written; "close", close() fails while flushing
RunnerRaise(j, faults) ==
    /\ j \in DOMAIN task
    /\ LET t == task[j] IN
       \/ /\ t.pc = "open" /\ "open" \in faults
          /\ UNCHANGED <<log_files, JOBS_DB>>
       \/ /\ t.pc = "read" /\ "read" \in faults
          /\ log_files' = [log_files EXCEPT ![j] = Flush(@)]
          /\ UNCHANGED JOBS_DB
       \/ /\ t.pc = "decide" /\ "copy" \in faults
          /\ SuccessTest(t)
          /\ find_firmware_bin(build_dirs, t.project_dir, t.device_name) # None
          /\ JOBS_DB' = [JOBS_DB EXCEPT ![j] = Finish(@)]
          /\ log_files' = [log_files EXCEPT
                              ![j] = Flush(Write(@, << <<"Status", ":", "SUCCESS">> >>))]
       \/ /\ t.pc = "close" /\ "close" \in faults
          /\ log_files' = [log_files EXCEPT ![j] = Lose(@)]
          /\ UNCHANGED JOBS_DB
    /\ task' = [task EXCEPT ![j].pc = "except", ![j].e = <<"OSError">>]
    /\ UNCHANGED <<job_queue, enqueued, requests, classifying, worker_semaphore, manager, build_dirs,
                   binaries, JOB_LOG_BROADCASTER, viewer, published, released>>

\* a handler that swallows the exception and records nothing
RunnerExcept_silent(j) ==
    /\ j \in DOMAIN task /\ task[j].pc = "except"
    /\ task' = [task EXCEPT ![j].pc = "except_log"]
    /\ UNCHANGED <<JOBS_DB, job_queue, enqueued, requests, classifying, worker_semaphore, manager, log_files,
                   build_dirs, binaries, JOB_LOG_BROADCASTER, viewer, published, released>>

\* except Exception as e: status = "failed", error = f"Python worker crashed: {e}"
RunnerExcept(j) ==
    /\ j \in DOMAIN task /\ task[j].pc = "except"
    /\ JOBS_DB' = [JOBS_DB EXCEPT ![j].status = "failed",
                                  ![j].error = <<"Python worker crashed:">> \o task[j].e]
    /\ task' = [task EXCEPT ![j].pc = "except_log"]
    /\ UNCHANGED <<job_queue, enqueued, requests, classifying, worker_semaphore, manager, log_files, build_dirs,
                   binaries, JOB_LOG_BROADCASTER, viewer, published, released>>

CrashLines(e) == << << >>, <<"---", "PYTHON WORKER CRASHED", "---">>, e >>

CrashEvent(job_id, e) ==
    [event |-> "milestone", milestone |-> <<"Server Crash">>,
     id |-> <<<<"crash", job_id>>, 1>>, line |-> <<"Error", ":">> \o e]

\* with open(log_path, 'a'): the crash note; then the Server Crash milestone; a failure
\* of the append (the fault "append") is swallowed by the bare except and skips the milestone
RunnerExceptLog(j, faults) ==
    /\ j \in DOMAIN task /\ task[j].pc = "except_log"
    /\ \E ok \in {TRUE} \cup {FALSE : f \in faults \cap {"append"}} :
         IF ok
         THEN /\ log_files' = Put(log_files, j,
                     Flush(Write(IF j \in DOMAIN log_files THEN log_files[j] ELSE OpenW,
                                 CrashLines(task[j].e))))
              /\ Publish(j, << CrashEvent(j, task[j].e) >>)
         ELSE UNCHANGED <<log_files, viewer, published>>
    /\ task' = [task EXCEPT ![j].pc = "finally"]
    /\ UNCHANGED <<JOBS_DB, job_queue, enqueued, requests, classifying, worker_semaphore, manager, build_dirs,
                   binaries, JOB_LOG_BROADCASTER, released>>

Close == [event |-> "CLOSE"]

\* a cleanup that publishes nothing
RunnerBroadcastClose_none(j) ==
    /\ j \in DOMAIN task /\ task[j].pc = "finally"
    /\ task' = [task EXCEPT ![j].pc = "unregister"]
    /\ UNCHANGED <<JOBS_DB, job_queue, enqueued, requests, classifying, worker_semaphore, manager, log_files,
                   build_dirs, binaries, JOB_LOG_BROADCASTER, viewer, published, released>>

\* finally: _broadcast_log(job_id, {'event': 'CLOSE'})
RunnerBroadcastClose(j) ==
    /\ j \in DOMAIN task /\ task[j].pc = "finally"
    /\ Publish(j, << Close >>)
    /\ task' = [task EXCEPT ![j].pc = "unregister"]
    /\ UNCHANGED <<JOBS_DB, job_queue, enqueued, requests, classifying, worker_semaphore, manager, log_files,
                   build_dirs, binaries, JOB_LOG_BROADCASTER, released>>

\* if job_id in JOB_LOG_BROADCASTER: del JOB_LOG_BROADCASTER[job_id]
\* a cleanup that empties the whole registry
RunnerUnregister_clear_all(j) ==
    /\ j \in DOMAIN task /\ task[j].pc = "unregister"
    /\ JOB_LOG_BROADCASTER' = << >>
    /\ task' = [task EXCEPT ![j].pc = "release"]
    /\ UNCHANGED <<JOBS_DB, job_queue, enqueued, requests, classifying, worker_semaphore, manager, log_files,
                   build_dirs, binaries, viewer, published, released>>

RunnerUnregister(j) ==
    /\ j \in DOMAIN task /\ task[j].pc = "unregister"
    /\ JOB_LOG_BROADCASTER' = Del(JOB_LOG_BROADCASTER, j)
    /\ task' = [task EXCEPT ![j].pc = "release"]
    /\ UNCHANGED <<JOBS_DB, job_queue, enqueued, requests, classifying, worker_semaphore, manager, log_files,
                   build_dirs, binaries, viewer, published, released>>

\* a cleanup that releases the slot twice
RunnerRelease_twice(j) ==
    /\ j \in DOMAIN task /\ task[j].pc = "release"
    /\ worker_semaphore' = release(release(worker_semaphore))
    /\ released' = Put(released, j, (IF j \in DOMAIN released THEN released[j] ELSE 0) + 2)
    /\ task' = [task EXCEPT ![j].pc = "done"]
    /\ UNCHANGED <<JOBS_DB, job_queue, enqueued, requests, classifying, manager, log_files, build_dirs, binaries,
                   JOB_LOG_BROADCASTER, viewer, published>>

\* worker_semaphore.release()
RunnerRelease(j) ==
    /\ j \in DOMAIN task /\ task[j].pc = "release"
    /\ worker_semaphore' = release(worker_semaphore)
    /\ released' = Put(released, j, (IF j \in DOMAIN released THEN released[j] ELSE 0) + 1)
    /\ task' = [task EXCEPT ![j].pc = "done"]
    /\ UNCHANGED <<JOBS_DB, job_queue, enqueued, requests, classifying, manager, log_files, build_dirs, binaries,
                   JOB_LOG_BROADCASTER, viewer, published>>

\* ------------------------------------------------------------ log_stream

\* a routing that sends every request to the live channel
Route_always_live(status) == "subscribe"

\* if status == 'running' or status == 'pending': live events, else: replay
Route(status) == IF status = "running" \/ status = "pending" THEN "subscribe" ELSE "replay"

\* viewers are numbered in the order their requests arrive
FreshViewer == Cardinality(DOMAIN viewer) + 1

\* log_stream: read the job's status under JOBS_DB_LOCK (404 when the job is unknown)
\* and pick the generator
OpenStream(ids) ==
    /\ FreshViewer \in ids
    /\ \E j \in DOMAIN JOBS_DB :
         viewer' = Put(viewer, FreshViewer,
                       [job |-> j, status |-> JOBS_DB[j].status,
                        pc |-> Route(JOBS_DB[j].status),
                        queue |-> << >>, got |-> << >>, mark |-> 0])
    /\ UNCHANGED <<orchestration, JOB_LOG_BROADCASTER>>

\* JOB_LOG_BROADCASTER[job_id].append(listener_queue), creating the entry when missing
subscribe(reg, job_id, v) ==
    Put(reg, job_id, (IF job_id \in DOMAIN reg THEN reg[job_id] ELSE << >>) \o <<v>>)

\* if job_id in JOB_LOG_BROADCASTER and listener_queue in JOB_LOG_BROADCASTER[job_id]: remove
unsubscribe(reg, job_id, v) ==
    IF job_id \in DOMAIN reg
    THEN [reg EXCEPT ![job_id] = SelectSeq(@, LAMBDA x : x # v)]
    ELSE reg

\* subscribe_to_live_events: listener_queue = queue.Queue(); register it
\* (mark: how many events had been published for the job by then)
Subscribe(v) ==
    /\ v \in DOMAIN viewer /\ viewer[v].pc = "subscribe"
    /\ JOB_LOG_BROADCASTER' = subscribe(JOB_LOG_BROADCASTER, viewer[v].job, v)
    /\ viewer' = [viewer EXCEPT ![v].pc = "listen",
                                ![v].mark = IF viewer[v].job \in DOMAIN published
                                            THEN Len(published[viewer[v].job]) ELSE 0]
    /\ UNCHANGED orchestration

\* log_data = listener_queue.get(); yield it; on CLOSE break and run the finally block
ListenGet(v) ==
    /\ v \in DOMAIN viewer /\ viewer[v].pc = "listen"
    /\ viewer[v].queue # << >>
    /\ LET log_data == Head(viewer[v].queue) IN
         /\ viewer' = [viewer EXCEPT ![v].queue = Tail(@),
                                     ![v].got = Append(@, log_data),
                                     ![v].pc = IF log_data.event = "CLOSE" THEN "done" ELSE @]
         /\ JOB_LOG_BROADCASTER' =
                IF log_data.event = "CLOSE"
                THEN unsubscribe(JOB_LOG_BROADCASTER, viewer[v].job, v)
                ELSE JOB_LOG_BROADCASTER
    /\ UNCHANGED orchestration

\* the client goes away: GeneratorExit at the yield, then the finally block
Disconnect(v) ==
    /\ v \in DOMAIN viewer /\ viewer[v].pc = "listen"
    /\ viewer[v].got # << >>
    /\ viewer' = [viewer EXCEPT ![v].pc = "gone"]
    /\ JOB_LOG_BROADCASTER' = unsubscribe(JOB_LOG_BROADCASTER, viewer[v].job, v)
    /\ UNCHANGED orchestration

\* the lines replay_log_events skips
Housekeeping(line_stripped) ==
    \/ StartsWith(line_stripped, <<"---">>)
    \/ StartsWith(line_stripped, <<"Command", ":">>)
    \/ StartsWith(line_stripped, <<"Project", "Dir", ":">>)
    \/ StartsWith(line_stripped, <<"PlatformIO", "Cache", ":">>)
    \/ StartsWith(line_stripped, <<"Env", ":">>)

\* for line in log_file: ... for event in parser.parse_line(line_stripped): yield
RECURSIVE FeedLines(_, _)
FeedLines(p, lines) ==
    IF lines = << >> THEN [parser |-> p, events |-> << >>]
    ELSE LET line_stripped == Strip(Head(lines)) IN
         IF line_stripped = << >> \/ Housekeeping(line_stripped)
         THEN FeedLines(p, Tail(lines))
         ELSE LET r == parse_line(p, line_stripped)
                  rest == FeedLines(r.parser, Tail(lines))
              IN [parser |-> rest.parser, events |-> r.events \o rest.events]

\* the milestone of the except branches, with the fixed id 'err'
ErrorEvent(text) == [event |-> "milestone", milestone |-> text, id |-> <<<<"err">>, 0>>]

\* a replay that yields CLOSE at the end of its try block instead of in finally
replay_log_events_close_in_try(file, inst, nlines, failed) ==
    IF file = None
    THEN << ErrorEvent(<<"Error", ":", "Log file not found">>) >>
    ELSE LET fed == FeedLines(LogParser(inst), SubSeq(file.disk, 1, nlines)) IN
         IF failed
         THEN fed.events \o << ErrorEvent(<<"Error", ":", "OSError">>) >>
         ELSE fed.events \o finalize(fed.parser).events \o << [event |-> "CLOSE"] >>

\* replay_log_events: the events yielded for a transcript file (None: no such file) of
\* which nlines lines are read before reading fails (failed), or all of them
replay_log_events(file, inst, nlines, failed) ==
    (IF file = None
     THEN << ErrorEvent(<<"Error", ":", "Log file not found">>) >>
     ELSE LET fed == FeedLines(LogParser(inst), SubSeq(file.disk, 1, nlines)) IN
          IF failed
          THEN fed.events \o << ErrorEvent(<<"Error", ":", "OSError">>) >>
          ELSE fed.events \o finalize(fed.parser).events)
    \o << Close >>

\* the replay generator runs to its end ("replay" in faults: reading may fail)
Replay(v, faults) ==
    /\ v \in DOMAIN viewer /\ viewer[v].pc = "replay"
    /\ LET j == viewer[v].job
           file == IF j \in DOMAIN log_files THEN log_files[j] ELSE None
       IN \E failed \in {FALSE} \cup {TRUE : f \in faults \cap {"replay"}} :
          \E nlines \in IF file = None THEN {0}
                        ELSE IF failed THEN 0..(Len(file.disk) - 1)
                        ELSE {Len(file.disk)} :
             viewer' = [viewer EXCEPT
                           ![v].got = replay_log_events(file, <<"replay", v>>, nlines, failed),
                           ![v].pc = "done"]
    /\ UNCHANGED <<orchestration, JOB_LOG_BROADCASTER>>

\* ------------------------------------------------------------ read-only routes

\* GET /status/<job_id>: jsonify(job.copy()), the whole record
get_job_status(job_id) == JOBS_DB[job_id]

\* ------------------------------------------------------------ LogParser on its own

CompileLine == <<"Compiling", ".pioenvs", "/src/main.cpp.o">>
RamLine == <<"RAM", ":", "[==  ]", "42.0%">>
FlashLine == <<"Flash", ":", "[====]", "18.0%">>
DownloadLine == <<"[?25l", "Downloading", "[==  ]", "50%">>
UnpackLine == <<"[?25l", "Unpacking", "[====]", "50%">>
LinkLine == <<"Linking", ".pioenvs", "/dev/", "firmware.elf">>
SuccessLine == <<"=====", "[SUCCESS]", " ", "Took", "41.2", "seconds">>
BuildLine == <<"[SUCCESS]", " ", "Successfully", "created", "esp32", "image">>
AuthLine == <<"ERROR", " ", "Authentication", "invalid">>

\* one line of each kind parse_line tells apart
ClassifierLines ==
    { CompileLine,
      <<"Archiving", ".pioenvs", "/libFrameworkArduino.a">>,
      LinkLine, SuccessLine, BuildLine, AuthLine,
      RamLine, FlashLine, DownloadLine, UnpackLine,
      <<"INFO", " ", "Reading", "configuration">> }

\* length of the run of compile lines the feed starts with
RECURSIVE Run(_)
Run(lines) ==
    IF lines # <<>> /\ Head(lines) = CompileLine THEN 1 + Run(Tail(lines)) ELSE 0

server == <<JOBS_DB, job_queue, enqueued, requests, worker_semaphore, manager, task, log_files,
            build_dirs, binaries, JOB_LOG_BROADCASTER, viewer, published, released>>

\* events = parser.parse_line(line)
ClassifierParseLine(lines) ==
    \E line \in lines :
        /\ finalized = 0
        /\ IF Run(fed_lines) = Len(fed_lines) /\ line = CompileLine
           THEN Len(fed_lines) < MaxRepeat
           ELSE Len(fed_lines) - Run(fed_lines) < MaxTail
        /\ LET r == parse_line(classifier, line) IN
             /\ classifier' = r.parser
             /\ returned' = r.events
             /\ out' = out \o r.events
        /\ fed_lines' = Append(fed_lines, line)
        /\ UNCHANGED <<server, finalized>>

\* events = parser.finalize()
ClassifierFinalize ==
    /\ finalized < MaxFinalize
    /\ LET r == finalize(classifier) IN
         /\ classifier' = r.parser
         /\ returned' = r.events
         /\ out' = out \o r.events
    /\ finalized' = finalized + 1
    /\ UNCHANGED <<server, fed_lines>>

\* ------------------------------------------------------------ specifications

Devices == {"dev"}
Targets == {<<"dev.local">>}
Passwords == {None}

\* process output of the orchestration runs
OutLines ==
    { <<"INFO", "Successfully", "uploaded", "program">>,
      <<"ERROR", "Authentication", "invalid">> }

Submission(ids) ==
    \/ SubmitCompile(ids, Devices)
    \/ SubmitUpload(ids, Targets, Passwords)
    \/ EnqueueUnknown(ids)

Manager ==
    \/ ManagerGet
    \/ ManagerAcquire
    \/ ManagerDiscard
    \/ ManagerLaunch
    \/ ManagerLaunchFail

\* a runner whose process prints nothing
RunnerQuiet(j, outcomes, faults) ==
    \/ RunnerStart(j)
    \/ RunnerOpen(j)
    \/ RunnerExit(j, outcomes)
    \/ RunnerDecide(j)
    \/ RunnerClose(j)
    \/ RunnerRaise(j, faults)
    \/ RunnerExcept(j)
    \/ RunnerExceptLog(j, faults)
    \/ RunnerBroadcastClose(j)
    \/ RunnerUnregister(j)
    \/ RunnerRelease(j)

Runner(j, lines, max, outcomes, faults) ==
    \/ RunnerReadLine(j, lines, max)
    \/ RunnerQuiet(j, outcomes, faults)

Viewer(v, faults) ==
    \/ Subscribe(v)
    \/ ListenGet(v)
    \/ Disconnect(v)
    \/ Replay(v, faults)

Outcomes == {0, 1} \X BOOLEAN
Faults == {"open", "read", "copy", "close", "append", "replay"}

\* Spec: a burst of submissions larger than the capacity; processes that print nothing,
\* exit 0 with the firmware built or 1 without, and may fail to close their transcript
Next ==
    \/ Submission(1..MaxJobs)
    \/ Manager
    \/ \E j \in 1..MaxJobs : RunnerQuiet(j, {<<0, TRUE>>, <<1, FALSE>>}, {"close"})

Spec == Init /\ [][Next]_vars

\* the dispatch thread and every runner thread keep being scheduled, and every process
\* exits (RunnerExit is a step of its runner); submissions are up to the clients
Fairness ==
    /\ WF_vars(ManagerGet)
    /\ WF_vars(ManagerAcquire)
    /\ WF_vars(ManagerDiscard \/ ManagerLaunch \/ ManagerLaunchFail)
    /\ \A j \in 1..MaxJobs :
          WF_vars(RunnerQuiet(j, {<<0, TRUE>>, <<1, FALSE>>}, {"close"}))

SpecFair == Spec /\ Fairness

Credentials == { <<"secret-a">>, <<"secret-b">> }

\* SpecSecret: a compile job and upload jobs that carry different credentials
NextSecret ==
    \/ SubmitCompile({1}, Devices)
    \/ SubmitUpload(1..MaxJobs, Targets, Credentials)
    \/ ManagerGet
    \/ ManagerAcquire
    \/ ManagerLaunch
    \/ \E j \in 1..MaxJobs : RunnerQuiet(j, {<<0, TRUE>>, <<1, FALSE>>}, {"close"})

SpecSecret == Init /\ [][NextSecret]_vars

\* SpecAdmit: ids handed to enqueue again and again while the loop dispatches
NextAdmit ==
    \/ SubmitCompile(1..MAX_CONCURRENT_JOBS, Devices)
    \/ Resubmit(1..MAX_CONCURRENT_JOBS, MaxRequests)
    \/ ManagerGet
    \/ ManagerAcquire
    \/ ManagerLaunch
    \/ \E j \in 1..MAX_CONCURRENT_JOBS : RunnerQuiet(j, {<<0, TRUE>>, <<1, FALSE>>}, {"close"})

SpecAdmit == Init /\ [][NextAdmit]_vars

\* SpecOutcome: as many jobs as run without queueing, every outcome and fault, output lines
NextOutcome ==
    \/ SubmitCompile(1..MAX_CONCURRENT_JOBS, Devices)
    \/ SubmitUpload(1..MAX_CONCURRENT_JOBS, Targets, Passwords)
    \/ ManagerGet
    \/ ManagerAcquire
    \/ ManagerLaunch
    \/ \E j \in 1..MAX_CONCURRENT_JOBS : Runner(j, OutLines, MaxLines, Outcomes, Faults)

SpecOutcome == Init /\ [][NextOutcome]_vars

StreamLines ==
    { <<"Compiling", ".pioenvs", "a.o">>,
      <<"---", "note">> }

\* the stream runs follow one job
StreamJobs == {1}

StreamFaults == {"open", "read", "append", "replay"}

\* SpecStream: one job and its viewers
NextStream ==
    \/ SubmitCompile(StreamJobs, Devices)
    \/ ManagerGet
    \/ ManagerAcquire
    \/ ManagerLaunch
    \/ \E j \in StreamJobs :
          Runner(j, StreamLines, MaxStreamLines, {<<0, TRUE>>, <<1, FALSE>>}, StreamFaults)
    \/ OpenStream(1..MaxViewers)
    \/ \E v \in 1..MaxViewers : Viewer(v, StreamFaults)

SpecStream == Init /\ [][NextStream]_vars

LiveLines == { <<"Compiling", ".pioenvs", "a.o">> }

\* the live runs follow one viewer (several viewers of one job are SpecStream's)
LiveViewers == {1}

\* SpecLive: as many jobs as run side by side, their runners publishing concurrently,
\* and a viewer of either
NextLive ==
    \/ SubmitCompile(1..MAX_CONCURRENT_JOBS, Devices)
    \/ ManagerGet
    \/ ManagerAcquire
    \/ ManagerLaunch
    \/ \E j \in 1..MAX_CONCURRENT_JOBS :
          Runner(j, LiveLines, MaxStreamLines, {<<0, TRUE>>}, {"read"})
    \/ OpenStream(LiveViewers)
    \/ \E v \in LiveViewers : Viewer(v, {})

SpecLive == Init /\ [][NextLive]_vars

\* SpecClassifier: one LogParser fed line by line and then finalized
NextClassifier ==
    \/ ClassifierParseLine(ClassifierLines)
    \/ ClassifierFinalize

SpecClassifier == Init /\ [][NextClassifier]_vars

PlainLine == <<"INFO", " ", "Reading", "configuration", " ">>
UploadedLine == <<"INFO", " ", "Successfully", "uploaded", "program", " ">>

\* what the process of the window runs prints first: a success marker, an authentication
\* marker, a plain line or a blank line
WindowLines == { UploadedLine, AuthLine, PlainLine, <<" ">> }

\* SpecWindow: a compile job, then an upload job whose process prints more lines than the
\* trailing window holds
NextWindow ==
    \/ SubmitCompile({1}, Devices)
    \/ SubmitUpload({2}, Targets, Passwords)
    \/ ManagerGet
    \/ ManagerAcquire
    \/ ManagerLaunch
    \/ RunnerQuiet(1, {<<0, TRUE>>}, {"close"})
    \/ RunnerReadLine(2, WindowLines, MaxHead)
    \/ RunnerReadLine(2, {PlainLine}, MaxOutput)
    \/ RunnerQuiet(2, Outcomes, {"close"})

SpecWindow == Init /\ [][NextWindow]_vars

\* SpecKind: a compile job and upload jobs with and without a target address (the loop
\* reads the target with job_details.get, the runner tests it)
NextKind ==
    \/ SubmitCompile({1}, Devices)
    \/ SubmitUpload({2, 3}, Targets \cup {None}, Passwords)
    \/ ManagerGet
    \/ ManagerAcquire
    \/ ManagerLaunch
    \/ RunnerQuiet(1, {<<0, TRUE>>}, {"close"})
    \/ Runner(2, OutLines, MaxLines, Outcomes, {"close"})
    \/ RunnerQuiet(3, Outcomes, {"close"})

SpecKind == Init /\ [][NextKind]_vars

\* ------------------------------------------------------------ claims: orchestration

RunningJobs == {j \in DOMAIN JOBS_DB : JOBS_DB[j].status = "running"}

\* C1: in every reachable state the number of jobs whose status is running is at most
\* MAX_CONCURRENT_JOBS, also when more jobs are submitted than there are slots.
C1_AdmissionBound == Cardinality(RunningJobs) <= MAX_CONCURRENT_JOBS

\* every slot is taken by a running job while the dispatch loop waits for a slot for
\* another submitted job
C1_Witness ==
    /\ Cardinality(RunningJobs) = MAX_CONCURRENT_JOBS
    /\ manager.pc = "acquire"
    /\ manager.job_id \in DOMAIN JOBS_DB
    /\ worker_semaphore = 0

Finished(j) == j \in DOMAIN task /\ task[j].pc = "done"

Crashed(j) == j \in DOMAIN task /\ task[j].e # None

ReleasedBy(j) == IF j \in DOMAIN released THEN released[j] ELSE 0

\* nothing is queued, dispatched or running, and every job of the store is terminal
AllFinished ==
    /\ job_queue = << >>
    /\ manager.pc = "get"
    /\ \A j \in DOMAIN task : Finished(j)
    /\ \A j \in DOMAIN JOBS_DB : JOBS_DB[j].status \in Terminal

\* C2: a runner releases its slot never twice; a runner that has finished (normally, with
\* a failed process, or through its exception handler) has left its job terminal and
\* released the slot exactly once; when all jobs have finished every slot is free.
C2_ReleasedExactlyOnce ==
    /\ \A j \in DOMAIN task :
          /\ ReleasedBy(j) <= 1
          /\ Finished(j) => ReleasedBy(j) = 1 /\ JOBS_DB[j].status \in Terminal
          /\ ReleasedBy(j) = 1 => Finished(j)
    /\ AllFinished => worker_semaphore = MAX_CONCURRENT_JOBS

\* all jobs finished: one through the exception handler, one with a failed process, one
\* with success
C2_Witness ==
    /\ AllFinished
    /\ \E j \in DOMAIN task : Crashed(j)
    /\ \E j \in DOMAIN task : ~Crashed(j) /\ task[j].returncode = 1
    /\ \E j \in DOMAIN task : ~Crashed(j) /\ JOBS_DB[j].status = "success"

StatusSteps == {<<"pending", "running">>, <<"running", "success">>, <<"running", "failed">>}

\* C3: every change of a job's status is one of pending -> running, running -> success,
\* running -> failed; a status that is success or failed is never changed again, the
\* exception handler included.
C3_MonotonicStatus ==
    [][\A j \in DOMAIN JOBS_DB :
          \/ JOBS_DB'[j].status = JOBS_DB[j].status
          \/ <<JOBS_DB[j].status, JOBS_DB'[j].status>> \in StatusSteps]_vars

\* ------------------------------------------------------------ claims: status decision

\* the runner has passed the status decision and no exception has escaped its try block
Completed(j) ==
    /\ j \in DOMAIN task
    /\ task[j].pc \in {"close", "finally", "unregister", "release", "done"}
    /\ task[j].e = None

WindowHas(w, pat) == \E i \in 1..Len(w) : Has(w[i], pat)

SuccessMarker(w) ==
    WindowHas(w, <<"Successfully", "uploaded">>) \/ WindowHas(w, <<"=====", "[SUCCESS]">>)

\* the success test of the claim: exit code zero and (run as compile or success marker)
PassedTest(t) ==
    t.returncode = 0 /\ (t.job_type = "compile" \/ SuccessMarker(t.last_lines))

\* C9: a completed run ends in success exactly when the process exited with code zero,
\* the job ran as compile or a success marker is in the trailing window, and the
\* firmware artifact was found; every other completed run ends in failed; a successful
\* job carries the artifact reference {jobId}-{deviceName}-firmware.bin and no error.
C9_StatusDetermination ==
    \A j \in DOMAIN task : Completed(j) =>
        /\ JOBS_DB[j].status \in Terminal
        /\ JOBS_DB[j].status = "success" <=>
              (PassedTest(task[j]) /\ task[j].source_binary_path # None)
        /\ JOBS_DB[j].status = "success" =>
              /\ JOBS_DB[j].binary_file =
                    <<ToString(j), "-", JOBS_DB[j].device_name, "-firmware.bin">>
              /\ JOBS_DB[j].binary_file \in binaries
              /\ JOBS_DB[j].error = None

\* an upload job has succeeded on a success marker, and a compile job on its exit code
C9_Witness ==
    /\ \E j \in DOMAIN task :
          /\ Completed(j) /\ task[j].job_type = "upload"
          /\ JOBS_DB[j].status = "success"
    /\ \E j \in DOMAIN task :
          /\ Completed(j) /\ task[j].job_type = "compile"
          /\ JOBS_DB[j].status = "success" /\ task[j].last_lines = << >>

\* C10: a completed run that ends in failed carries the artifact-not-found message when
\* the success test passed, otherwise the authentication message when an authentication
\* marker is in the trailing window, otherwise the generic process-failure message.
C10_ErrorClassification ==
    \A j \in DOMAIN task : (Completed(j) /\ JOBS_DB[j].status = "failed") =>
        JOBS_DB[j].error =
            IF PassedTest(task[j])
            THEN <<"Source binary not found in">> \o JOBS_DB[j].project_dir
            ELSE IF WindowHas(task[j].last_lines, <<"Authentication", "invalid">>)
            THEN <<"Upload failed: Authentication Invalid.">>
            ELSE <<"Process failed. Check log for details.">>

\* an upload job exited 0 without a success or authentication marker and failed with the
\* generic message
C10_Witness ==
    \E j \in DOMAIN task :
        /\ Completed(j) /\ task[j].job_type = "upload" /\ task[j].returncode = 0
        /\ ~SuccessMarker(task[j].last_lines)
        /\ ~WindowHas(task[j].last_lines, <<"Authentication", "invalid">>)
        /\ JOBS_DB[j].status = "failed"
        /\ JOBS_DB[j].error = <<"Process failed. Check log for details.">>

\* ------------------------------------------------------------ claims: event streams

Live(v) == viewer[v].status \notin Terminal

Registered(v) ==
    \E j \in DOMAIN JOB_LOG_BROADCASTER :
        \E i \in 1..Len(JOB_LOG_BROADCASTER[j]) : JOB_LOG_BROADCASTER[j][i] = v

PublishedFor(j) == IF j \in DOMAIN published THEN published[j] ELSE << >>

\* the events published for v's job after v registered its queue
Since(v) ==
    SubSeq(PublishedFor(viewer[v].job), viewer[v].mark + 1, Len(PublishedFor(viewer[v].job)))

IsPrefix(a, b) == Len(a) <= Len(b) /\ a = SubSeq(b, 1, Len(a))

Closes(evs) == {i \in 1..Len(evs) : evs[i].event = "CLOSE"}

\* C4: a viewer that waits on the live channel of a job whose runner has finished has
\* received Close or has it waiting in its queue (nothing is published for the job any
\* more, so otherwise the viewer never receives Close).
C4_ViewerGetsClose ==
    \A v \in DOMAIN viewer :
        (viewer[v].pc = "listen" /\ Finished(viewer[v].job)) =>
            Closes(viewer[v].queue) # {}

\* C5: a stream holds at most one Close and nothing after it; a stream that has ended,
\* live or replayed, ends with Close, also when the transcript is missing or reading fails.
C5_OneCloseLast ==
    \A v \in DOMAIN viewer :
        /\ Closes(viewer[v].got) \subseteq {Len(viewer[v].got)}
        /\ viewer[v].pc = "done" => Closes(viewer[v].got) = {Len(viewer[v].got)}

\* a replay of a job that has no transcript file has ended
C5_Witness ==
    \E v \in DOMAIN viewer :
        /\ viewer[v].pc = "done" /\ ~Live(v)
        /\ viewer[v].job \notin DOMAIN log_files
        /\ Len(viewer[v].got) = 2

\* an event without its step identifier
Anonymous(ev) ==
    IF "id" \in DOMAIN ev THEN [ev EXCEPT !.id = None]
    ELSE IF "target_id" \in DOMAIN ev THEN [ev EXCEPT !.target_id = None]
    ELSE ev

Anonymized(evs) == [i \in 1..Len(evs) |-> Anonymous(evs[i])]

ButLast(evs) == SubSeq(evs, 1, Len(evs) - 1)

\* C6: for a job whose runner has finished without raising, replaying its transcript
\* through a fresh classifier yields, before the Close, the events the runner published
\* live before its Close (compared without the step identifiers, which are drawn at
\* random).
C6_ReplayEqualsLive ==
    \A j \in DOMAIN task : (Finished(j) /\ ~Crashed(j) /\ j \in DOMAIN log_files) =>
        Anonymized(ButLast(replay_log_events(log_files[j], <<"replay", 0>>,
                                             Len(log_files[j].disk), FALSE)))
        = Anonymized(ButLast(PublishedFor(j)))

\* C7: what a live subscriber has received and still has waiting is exactly the sequence
\* of events published for its job since it registered, in publish order; a subscriber
\* that went away has received a prefix of it.
C7_LiveDelivery ==
    \A v \in DOMAIN viewer : Live(v) =>
        /\ viewer[v].pc \in {"listen", "done"} =>
              viewer[v].got \o viewer[v].queue = Since(v)
        /\ viewer[v].pc = "gone" => IsPrefix(viewer[v].got, Since(v))
        /\ viewer[v].pc = "subscribe" => viewer[v].got = << >> /\ viewer[v].queue = << >>

\* a subscriber that registered after the first events were published has received the
\* later events up to Close while another job published events of its own
C7_Witness ==
    \E v \in DOMAIN viewer :
        /\ Live(v) /\ viewer[v].pc = "done"
        /\ viewer[v].mark > 0
        /\ Len(viewer[v].got) >= 3
        /\ \E j \in DOMAIN published : j # viewer[v].job /\ published[j] # << >>

\* where the step identifiers of a stream come from
IdSources(evs) == {evs[i].id[1][1] : i \in {k \in 1..Len(evs) : "id" \in DOMAIN evs[k]}}

\* C8: a stream opened on a terminal status is served by replay alone: its queue is never
\* registered and never filled; a stream opened on pending or running is served by the
\* live channel alone.
C8_Routing ==
    \A v \in DOMAIN viewer :
        IF Live(v)
        THEN /\ viewer[v].pc \in {"subscribe", "listen", "done", "gone"}
             /\ IsPrefix(viewer[v].got, Since(v))
             /\ IdSources(viewer[v].got) \subseteq {"live", "crash"}
        ELSE /\ viewer[v].pc \in {"replay", "done"}
             /\ ~Registered(v)
             /\ viewer[v].queue = << >>
             /\ IdSources(viewer[v].got) \subseteq {"replay", "err"}

\* a stream opened on a terminal status has replayed a transcript with a step in it
C8_Witness ==
    \E v \in DOMAIN viewer :
        /\ ~Live(v) /\ viewer[v].pc = "done"
        /\ "replay" \in IdSources(viewer[v].got)

\* ------------------------------------------------------------ claims: job record

C12_ArtifactOnlyOnSuccess ==
    \A j \in DOMAIN JOBS_DB :
        JOBS_DB[j].binary_file # None => JOBS_DB[j].status = "success"

\* ------------------------------------------------------------ claims: failure handling

Handled(j) == Crashed(j) /\ task[j].pc \in {"except_log", "finally", "unregister", "release", "done"}

\* C13: an exception raised in the runner's try block is caught: from the handler on the
\* job is failed with the runner-crash message, and the runner goes on through its
\* cleanup, publishing Close as its last event and releasing its slot once.
C13_CrashIsContained ==
    \A j \in DOMAIN task :
        /\ Handled(j) =>
              /\ JOBS_DB[j].status = "failed"
              /\ JOBS_DB[j].error = <<"Python worker crashed:">> \o task[j].e
        /\ (Crashed(j) /\ task[j].pc \in {"unregister", "release", "done"}) =>
              Closes(PublishedFor(j)) = {Len(PublishedFor(j))}
        /\ (Crashed(j) /\ Finished(j)) => ReleasedBy(j) = 1

\* a runner whose process had exited with 0 raised afterwards (copying the artifact or
\* closing the transcript) and has finished its cleanup
C13_Witness ==
    \E j \in DOMAIN task :
        /\ Crashed(j) /\ Finished(j)
        /\ task[j].returncode = 0

\* ------------------------------------------------------------ claims: progress

InQueue(j) == \E i \in 1..Len(job_queue) : job_queue[i] = j

\* C14: every enqueued job that has a record is eventually launched and terminal. An id
\* is enqueued once and the dispatch loop takes it once, so a job that the loop has taken
\* from the queue and is no longer handling must have a runner: otherwise it stays
\* pending for ever, however fair the scheduling.
C14_EveryJobTerminates ==
    \A j \in enqueued \cap DOMAIN JOBS_DB :
        (~InQueue(j) /\ manager.job_id # j) => j \in DOMAIN task

\* ------------------------------------------------------------ claims: dispatch

\* C15: when the dispatch loop holds an id that has no record, its next step starts no
\* runner, gives back the slot it took and returns to the queue with the waiting ids
\* untouched; no runner ever exists for an id without a record.
C15_DiscardMissing ==
    [][ /\ DOMAIN task' \subseteq DOMAIN JOBS_DB'
        /\ (manager.pc = "lookup" /\ manager.job_id \notin DOMAIN JOBS_DB
              /\ manager' # manager) =>
              /\ worker_semaphore' = worker_semaphore + 1
              /\ task' = task
              /\ manager'.pc = "get"
              /\ job_queue' = job_queue ]_vars

\* an id without a record has been discarded and a job enqueued after it has a runner
C15_Witness ==
    \E u \in enqueued \ DOMAIN JOBS_DB : \E k \in DOMAIN task :
        /\ ~InQueue(u) /\ manager.job_id # u
        /\ k > u

\* the ids the dispatch loop has taken from the queue and still holds or has launched
Taken == DOMAIN task \cup ({manager.job_id} \ {0})

\* C16: jobs are admitted in the order their ids were enqueued. Ids are handed out in
\* the order of enqueueing, so: the queue holds its ids in increasing order, every id
\* the loop has taken is smaller than every id still waiting, and the id in the loop's
\* hands is larger than that of every runner launched before.
C16_FifoAdmission ==
    /\ \A i, k \in 1..Len(job_queue) : i < k => job_queue[i] < job_queue[k]
    /\ \A j \in Taken : \A i \in 1..Len(job_queue) : j < job_queue[i]
    /\ manager.job_id # 0 => \A j \in DOMAIN task : j < manager.job_id

\* two runners were launched one after the other and the loop holds the id enqueued
\* third, waiting for a slot
C16_Witness ==
    /\ {1, 2} \subseteq DOMAIN task
    /\ manager = [pc |-> "acquire", job_id |-> 3]

Belongings(db, files, reg, pub, vw, k) ==
    << IF k \in DOMAIN db THEN db[k] ELSE None,
       IF k \in DOMAIN files THEN files[k] ELSE None,
       IF k \in DOMAIN reg THEN reg[k] ELSE None,
       IF k \in DOMAIN pub THEN pub[k] ELSE None,
       [v \in {w \in DOMAIN vw : vw[w].job = k} |-> vw[v]] >>

\* C18: a step of the runner of job j, on its normal path or in its exception handler,
\* changes nothing that belongs to another job and leaves the dispatch loop and the
\* queue as they are.
C18_RunnerFrame ==
    [][ \A j \in DOMAIN task : task'[j] # task[j] =>
          /\ \A k \in (DOMAIN JOBS_DB' \cup DOMAIN JOB_LOG_BROADCASTER) \ {j} :
                Belongings(JOBS_DB', log_files', JOB_LOG_BROADCASTER', published', viewer', k)
                = Belongings(JOBS_DB, log_files, JOB_LOG_BROADCASTER, published, viewer, k)
          /\ \A k \in DOMAIN task \ {j} : task'[k] = task[k]
          /\ manager' = manager /\ job_queue' = job_queue ]_vars

\* the runner of job 1 has crashed and finished while job 2 went on to succeed and its
\* viewer received its stream up to Close
C18_Witness ==
    /\ Crashed(1) /\ Finished(1)
    /\ 2 \in DOMAIN JOBS_DB /\ JOBS_DB[2].status = "success"
    /\ \E v \in DOMAIN viewer :
          /\ viewer[v].job = 2 /\ Live(v) /\ viewer[v].pc = "done"
          /\ Len(viewer[v].got) >= 2

\* ------------------------------------------------------------ claims: listener queues

Min(a, b) == IF a < b THEN a ELSE b

\* the events a step has published for job j
NewlyPublished(j) ==
    SubSeq(published'[j], Len(PublishedFor(j)) + 1, Len(published'[j]))

\* the viewers whose queue is listed for job j
Listeners(j) ==
    IF j \in DOMAIN JOB_LOG_BROADCASTER
    THEN {JOB_LOG_BROADCASTER[j][i] : i \in 1..Len(JOB_LOG_BROADCASTER[j])}
    ELSE {}

C20_BoundedBacklog ==
    \A v \in DOMAIN viewer : Len(viewer[v].queue) <= QueueCapacity

\* ------------------------------------------------------------ claims: transcript

\* what a reader of job j's transcript finds in the file
OnDisk(files, j) == IF j \in DOMAIN files THEN files[j].disk ELSE None

\* C21: once a job's status is success or failed, what its transcript file holds no
\* longer changes, so a replay started then reads the final transcript.
C21_TranscriptFinalWhenTerminal ==
    [][ \A j \in DOMAIN JOBS_DB :
          JOBS_DB[j].status \in Terminal => OnDisk(log_files', j) = OnDisk(log_files, j) ]_vars

\* ------------------------------------------------------------ claims: credential

\* a record or snapshot with its job id and credential blanked
Blanked(rec) == [rec EXCEPT !.job_id = 0, !.api_password = None]

\* C22: two jobs that differ only in the value of their upload credential return the same
\* status snapshot (job id aside) and get the same transcript header.
C22_CredentialNotEchoed ==
    \A j, k \in DOMAIN JOBS_DB :
        ( /\ JOBS_DB[j].api_password # None /\ JOBS_DB[k].api_password # None
          /\ Blanked(JOBS_DB[j]) = Blanked(JOBS_DB[k]) ) =>
            /\ [get_job_status(j) EXCEPT !.job_id = 0] = [get_job_status(k) EXCEPT !.job_id = 0]
            /\ Header(0, NewTask(JOBS_DB[j])) = Header(0, NewTask(JOBS_DB[k]))

\* ------------------------------------------------------------ claims: timestamps

Stamped(rec) ==
    /\ rec.submitted_time # None /\ rec.start_time # None
    /\ rec.end_time # None /\ rec.duration # None
    /\ rec.submitted_time[1] < rec.start_time[1]
    /\ rec.start_time[1] < rec.end_time[1]

\* C23: a job in a terminal status has its submitted time, start time, end time and
\* duration, submitted before start before end, and none of the four, once set, is set
\* again; on every path, the exception handler included.
C23_StampedOnce ==
    [][ \A j \in DOMAIN JOBS_DB' :
          /\ JOBS_DB'[j].status \in Terminal => Stamped(JOBS_DB'[j])
          /\ j \in DOMAIN JOBS_DB =>
                \A f \in TimeFields \cup {"duration"} :
                    JOBS_DB[j][f] # None => JOBS_DB'[j][f] = JOBS_DB[j][f] ]_vars
\* ------------------------------------------------------------ claims: classifier

Events(evs, kind) == { i \in DOMAIN evs : evs[i].event = kind }

\* the summary that closes an aggregation of n lines under the step identifier id
Closing(e, id, n) ==
    /\ e.event = "update_summary"
    /\ e.target_id = id
    /\ e.text[1] = CompileSummary /\ e.text[2] = n /\ e.text[3] = "files"

\* C24: whatever lines were classified, finalize() returns exactly one event, the closing
\* summary of the open aggregation, if an aggregation is open, and nothing otherwise; it
\* leaves no aggregation open, so a second finalize() returns nothing; and no event the
\* classifier ever returns is a CLOSE.
C24_FinalizeClosesOnce ==
    [][ /\ \A i \in DOMAIN returned' : returned'[i].event # Close.event
        /\ finalized' = finalized + 1 =>
              /\ IF classifier.in_compile_step
                 THEN /\ Len(returned') = 1
                      /\ Closing(returned'[1], classifier.summary_id, classifier.compile_count)
                 ELSE returned' = <<>>
              /\ ~classifier'.in_compile_step
              /\ finalized >= 1 => returned' = <<>> ]_vars

\* an aggregation was open at the first finalize(), which closed it, and a second
\* finalize() has returned nothing
C24_Witness ==
    /\ finalized = 2
    /\ returned = <<>>
    /\ out # <<>> /\ out[Len(out)].event = "update_summary"
    /\ out[Len(out)].text[3] = "files"

\* the update_summary events of evs whose text ends with the given word
Summaries(evs, word) == { i \in Events(evs, "update_summary") : evs[i].text[3] = word }

\* C25: a fresh classifier fed N >= 1 consecutive compile lines has returned exactly one
\* milestone event, on the first line; one refreshing summary on each line whose running
\* count is a multiple of 25, carrying that count, and no other summary; and once
\* finalize() was called, exactly one closing summary, whose count is N.
C25_RepeatCadence ==
    LET N == Len(fed_lines) IN
    (N >= 1 /\ \A i \in 1..N : fed_lines[i] = CompileLine) =>
        /\ Events(out, "milestone") = {1}
        /\ Cardinality(Summaries(out, "files...")) = N \div 25
        /\ \A i \in Summaries(out, "files...") :
              /\ out[i].text[2] % 25 = 0
              /\ out[i].target_id = out[1].id
              /\ Cardinality({ k \in 1..(i - 1) : out[k].event # "update_summary" })
                    = out[i].text[2] - 1
        /\ IF finalized = 0
           THEN Summaries(out, "files") = {}
           ELSE /\ Summaries(out, "files") = {Len(out)}
                /\ Closing(out[Len(out)], out[1].id, N)

\* thirty compile lines and a finalize(): the summary of the 25th line and the closing
\* summary of 30 have been returned
C25_Witness ==
    /\ Len(fed_lines) = 30 /\ Run(fed_lines) = 30
    /\ finalized = 1
    /\ \E i \in Summaries(out, "files...") : out[i].text[2] = 25
    /\ Closing(out[Len(out)], out[1].id, 30)

ProgressLines == {RamLine, FlashLine, DownloadLine, UnpackLine}

\* the milestone a progress name belongs to
Bucket(name) ==
    IF name \in {"RAM", "Flash"}
    THEN <<"Calculating Firmware Size">>
    ELSE <<"Installing Dependencies">>

\* C26: classifying a progress line returns, last, one progress event carrying the line's
\* name, bar and percent; the milestone it belongs to depends on the name only; when that
\* milestone is not the current one, the events before the progress event are the closing
\* summary of the open aggregation, if any, and the one opening of the milestone; when it
\* is the current one, the progress event is all that is returned.
C26_ProgressBucket ==
    [][ (Len(fed_lines') = Len(fed_lines) + 1 /\ fed_lines'[Len(fed_lines')] \in ProgressLines) =>
          LET line   == fed_lines'[Len(fed_lines')]
              name   == IF line[1] = "[?25l" THEN line[2] ELSE line[1]
              n      == Len(returned')
          IN /\ n >= 1
             /\ Events(returned', "progress") = {n}
             /\ returned'[n].data = [name |-> name, bar |-> line[3], percent |-> line[4]]
             /\ classifier'.current_milestone = Bucket(name)
             /\ ~classifier'.in_compile_step
             /\ IF classifier.current_milestone # Bucket(name)
                THEN /\ n = IF classifier.in_compile_step THEN 3 ELSE 2
                     /\ returned'[n - 1].event = "milestone"
                     /\ returned'[n - 1].milestone = Bucket(name)
                     /\ classifier.in_compile_step =>
                           Closing(returned'[1], classifier.summary_id, classifier.compile_count)
                ELSE n = 1 ]_vars

\* a RAM line then a Flash line on a fresh classifier: two progress events, one milestone
C26_Witness ==
    /\ fed_lines = <<RamLine, FlashLine>>
    /\ Cardinality(Events(out, "progress")) = 2
    /\ Cardinality(Events(out, "milestone")) = 1
    /\ out[1].milestone = <<"Calculating Firmware Size">>

\* C27: when finalize() is called while an aggregation is open, the summary it returns
\* is labelled as interrupted.
C27_InterruptedLabel ==
    [][ (finalized' = finalized + 1 /\ classifier.in_compile_step) =>
          \E i \in Events(returned', "update_summary") :
              /\ Len(returned'[i].text) = 4
              /\ returned'[i].text[4] = "- Interrupted" ]_vars

\* ------------------------------------------------------------ claims: cleanup

ClosePublished(pub, j) == j \in DOMAIN pub /\ Closes(pub[j]) # {}

\* C28: a runner's cleanup goes in one order on every exit path: Close is published while
\* nothing of the cleanup is done yet; the job's registry entry is removed after Close was
\* published and before the slot is released; the slot is released after both, and never
\* before Close was published; a runner that has ended has done all three.
C28_CleanupOrder ==
    [][ \A j \in DOMAIN task :
          LET rel(r) == IF j \in DOMAIN r THEN r[j] ELSE 0 IN
          /\ (~ClosePublished(published, j) /\ ClosePublished(published', j)) =>
                /\ task[j].pc = "finally" /\ task'[j].pc = "unregister"
                /\ rel(released') = 0
          /\ (task[j].pc = "unregister" /\ task'[j].pc # "unregister") =>
                /\ ClosePublished(published, j)
                /\ j \notin DOMAIN JOB_LOG_BROADCASTER'
                /\ task'[j].pc = "release"
                /\ rel(released') = 0
          /\ rel(released') # rel(released) =>
                /\ ClosePublished(published, j)
                /\ task[j].pc = "release" /\ task'[j].pc = "done"
          /\ task'[j].pc = "done" =>
                ClosePublished(published', j) /\ rel(released') = 1 ]_vars

\* a runner that went through its exception handler has ended, and a viewer that had
\* subscribed to its job has received Close
C28_Witness ==
    \E j \in DOMAIN task :
        /\ Crashed(j) /\ Finished(j)
        /\ j \notin DOMAIN JOB_LOG_BROADCASTER
        /\ \E v \in DOMAIN viewer :
              viewer[v].job = j /\ Live(v) /\ Closes(viewer[v].got) # {}

\* ------------------------------------------------------------ claims: concurrency

\* the dispatch loop waits at worker_semaphore.acquire()
Blocked == manager.pc = "acquire" /\ worker_semaphore = 0

\* C29: the dispatch loop waits for no runner: the step that launches a runner takes the
\* loop back to the queue; whatever the runners do, the loop can take a waiting id, can
\* take a slot when one is free, and can launch or discard the id it holds, so it is
\* stopped only at acquire() with no slot free; and while it is stopped there every
\* runner that has not ended can take its next step.
C29_LoopNeverJoins ==
    /\ [][ DOMAIN task' # DOMAIN task => manager'.pc = "get" /\ manager.pc = "lookup" ]_vars
    /\ [] /\ (manager.pc = "get" /\ job_queue # << >>) => ENABLED ManagerGet
          /\ (manager.pc = "acquire" /\ ~Blocked) => ENABLED ManagerAcquire
          /\ manager.pc = "lookup" => ENABLED (ManagerDiscard \/ ManagerLaunch)
          /\ Blocked =>
                \A j \in DOMAIN task :
                    ~Finished(j) => ENABLED RunnerQuiet(j, {<<0, TRUE>>, <<1, FALSE>>}, {"close"})

\* two jobs are running, one reading its process's output and one about to open its
\* transcript, while the loop waits for a slot for a third
C29_Witness ==
    /\ Blocked
    /\ Cardinality(RunningJobs) = 2
    /\ \E j \in DOMAIN task : task[j].pc = "read"
    /\ \E j \in DOMAIN task : task[j].pc = "open"

\* the admitted ids whose slot has not been given back: the id the loop took a slot for
\* and still holds, and the jobs whose runner has not released yet
SlotHolders ==
    {j \in DOMAIN task : ReleasedBy(j) = 0}
        \cup (IF manager.pc = "lookup" THEN {manager.job_id} ELSE {})

\* C30: in every reachable state the free slots and the admitted jobs whose runner has
\* not yet released its slot add up to MAX_CONCURRENT_JOBS, the number of free slots is
\* between 0 and MAX_CONCURRENT_JOBS, and every running job holds one slot, exactly.
C30_SlotAccounting ==
    /\ worker_semaphore + Cardinality(SlotHolders) = MAX_CONCURRENT_JOBS
    /\ worker_semaphore \in 0..MAX_CONCURRENT_JOBS
    /\ \A j \in RunningJobs : j \in DOMAIN task /\ ReleasedBy(j) = 0

\* ------------------------------------------------------------ claims: slot leak

\* no slot is in use: the loop holds none and every runner it launched has released
Idle == manager.pc # "lookup" /\ \A j \in DOMAIN task : ReleasedBy(j) >= 1

\* C31: a slot the dispatch loop acquired comes back, also when the loop fails between
\* acquire() and the start of the runner: whenever no slot is in use (only a runner's
\* release and the loop's discard give one back), all MAX_CONCURRENT_JOBS slots are free.
C31_NoSlotLeak == Idle => worker_semaphore = MAX_CONCURRENT_JOBS

\* ------------------------------------------------------------ claims: early subscriber

\* v registered its queue before anything was published for its job
Early(v) == Live(v) /\ viewer[v].pc \in {"listen", "done"} /\ viewer[v].mark = 0

\* C32: a viewer that registered before its job's runner published anything has received,
\* or has waiting in its queue, every event published for the job, from the first one on
\* and in order, whatever the runner did at its start; once its stream has ended it has
\* received all of them, Close last.
C32_EarlySubscriberComplete ==
    \A v \in DOMAIN viewer : Early(v) =>
        /\ viewer[v].got \o viewer[v].queue = PublishedFor(viewer[v].job)
        /\ viewer[v].pc = "done" =>
              /\ viewer[v].got = PublishedFor(viewer[v].job)
              /\ Closes(viewer[v].got) = {Len(viewer[v].got)}

\* a viewer that opened its stream while the job was pending and registered before the
\* runner's first event has received the whole stream: the announcement, the output and Close
C32_Witness ==
    \E v \in DOMAIN viewer :
        /\ Early(v) /\ viewer[v].status = "pending" /\ viewer[v].pc = "done"
        /\ Len(viewer[v].got) >= 4
        /\ viewer[v].got[1].event = "milestone"

\* ------------------------------------------------------------ claims: Close and status

\* C33: from the moment Close is published for a job, the job's status in the store is
\* success or failed; so a log_stream request that arrives after Close was published
\* reads a terminal status and is served by replay, never by the live channel.
C33_CloseAfterTerminal ==
    [][ /\ \A j \in DOMAIN JOBS_DB' :
              ClosePublished(published', j) => JOBS_DB'[j].status \in Terminal
        /\ \A v \in DOMAIN viewer' \ DOMAIN viewer :
              ClosePublished(published, viewer'[v].job) =>
                  viewer'[v].status \in Terminal /\ viewer'[v].pc = "replay" ]_vars

\* a job that went through the exception handler has its Close published and its registry
\* entry not yet removed, and a request for it is served by replay
C33_Witness ==
    \E v \in DOMAIN viewer :
        /\ viewer[v].pc \in {"replay", "done"} /\ ~Live(v)
        /\ Crashed(viewer[v].job)
        /\ task[viewer[v].job].pc = "unregister"

\* ------------------------------------------------------------ claims: registry

ViewersOf(j) == {v \in DOMAIN viewer : viewer[v].job = j}

\* C34: once a job's runner has completed its cleanup, (a) when every viewer of the job
\* has ended or gone away the registry has no entry for the job, and (b) no stale entry
\* or queue is left behind: an entry that is still there lists only queues whose viewer
\* has its Close waiting, and so is about to leave.
C34_NoStaleEntry ==
    \A j \in DOMAIN task : Finished(j) =>
        /\ (\A v \in ViewersOf(j) : viewer[v].pc \in {"done", "gone"}) =>
              j \notin DOMAIN JOB_LOG_BROADCASTER
        /\ j \in DOMAIN JOB_LOG_BROADCASTER =>
              /\ JOB_LOG_BROADCASTER[j] # << >>
              /\ \A v \in Listeners(j) : Closes(viewer[v].queue) # {}

\* ------------------------------------------------------------ claims: replay filter

\* the lines of a transcript that replay_log_events passes to parse_line, in order
RECURSIVE Kept(_)
Kept(lines) ==
    IF lines = << >> THEN << >>
    ELSE LET line_stripped == Strip(Head(lines)) IN
         IF line_stripped = << >> \/ Housekeeping(line_stripped)
         THEN Kept(Tail(lines))
         ELSE <<line_stripped>> \o Kept(Tail(lines))

\* C35: the lines replay feeds the classifier from the transcript of a job whose runner
\* has ended are exactly the non-empty lines its process printed, in order: every header
\* and trailer line is skipped and no line of the process is. (The process prints fewer
\* lines than the trailing window holds, so last_lines is all of them.)
C35_ReplayFeedsOutput ==
    \A j \in DOMAIN task :
        (Finished(j) /\ j \in DOMAIN log_files) =>
            Kept(log_files[j].disk) = task[j].last_lines

\* ------------------------------------------------------------ claims: milestones

\* the milestone lines of ClassifierLines and the milestone each one names
MilestoneOf ==
    (LinkLine :> <<"Linking Firmware">>) @@ (SuccessLine :> <<"Upload Succeeded">>)
        @@ (BuildLine :> <<"Build Succeeded">>)
        @@ (AuthLine :> <<"Upload Failed: Authentication Invalid">>)

\* the step identifiers of the milestone events of evs
StepIds(evs) == {evs[i].id : i \in Events(evs, "milestone")}

\* C36: classifying a milestone line opens a step exactly when the milestone it names is
\* not the current one: then one milestone event with that name is returned, after the
\* closing summary (with the final count) of the aggregation that was open, if any, and
\* its identifier is none of those emitted before in the stream; when the milestone is
\* the current one, no step is opened and no summary returned.
C36_MilestoneOpens ==
    [][ (Len(fed_lines') = Len(fed_lines) + 1
           /\ fed_lines'[Len(fed_lines')] \in DOMAIN MilestoneOf) =>
          LET name  == MilestoneOf[fed_lines'[Len(fed_lines')]]
              opens == Events(returned', "milestone")
              sums  == Events(returned', "update_summary")
          IN IF classifier.current_milestone # name
             THEN /\ Cardinality(opens) = 1
                  /\ \A i \in opens :
                        /\ returned'[i].milestone = name
                        /\ returned'[i].id \notin StepIds(out)
                        /\ classifier.in_compile_step => i = 2
                  /\ IF classifier.in_compile_step
                     THEN /\ sums = {1}
                          /\ Closing(returned'[1], classifier.summary_id,
                                     classifier.compile_count)
                     ELSE sums = {}
                  /\ classifier'.current_milestone = name
                  /\ ~classifier'.in_compile_step
             ELSE opens = {} /\ sums = {} /\ classifier' = classifier ]_vars

\* a compile line, a linking line and a second linking line: the aggregation was closed,
\* the linking step opened once, under an identifier of its own
C36_Witness ==
    /\ fed_lines = <<CompileLine, LinkLine, LinkLine>>
    /\ Cardinality(Events(out, "milestone")) = 2
    /\ Cardinality(StepIds(out)) = 2
    /\ Cardinality(Events(out, "update_summary")) = 1

\* ------------------------------------------------------------ claims: line text

\* the lines of ClassifierLines that name a suppressed milestone
SuppressedLines == {SuccessLine, BuildLine, AuthLine}

\* the events of evs that carry a line's text
Carriers(evs) == {i \in DOMAIN evs : "line" \in DOMAIN evs[i]}

\* C37: the events returned for a classified line carry no text but that line's, and
\* carry it exactly once, in a log event, in the milestone event that opens an
\* aggregation or in a progress event, except that the line of a suppressed milestone
\* (Upload Succeeded, Build Succeeded, Upload Failed: Authentication Invalid) is carried
\* by no event; finalize() returns no event that carries a line.
C37_LineCarriedOnce ==
    [][ /\ Len(fed_lines') = Len(fed_lines) + 1 =>
              LET line == fed_lines'[Len(fed_lines')] IN
              /\ Cardinality(Carriers(returned')) = IF line \in SuppressedLines THEN 0 ELSE 1
              /\ \A i \in Carriers(returned') :
                    /\ returned'[i].line = line
                    /\ returned'[i].event \in {"log", "milestone", "progress"}
                    /\ returned'[i].event = "milestone" =>
                          returned'[i].milestone = <<CompileSummary>>
        /\ finalized' # finalized => Carriers(returned') = {} ]_vars

\* a linking line and then a 'Build Succeeded' line: two steps opened, one line carried
C37_Witness ==
    /\ fed_lines = <<LinkLine, BuildLine>>
    /\ Cardinality(Events(out, "milestone")) = 2
    /\ Cardinality(Carriers(out)) = 1

\* ------------------------------------------------------------ claims: determinism

\* the events a classifier in state p returns for the lines, one parse_line call per line
RECURSIVE Classified(_, _)
Classified(p, lines) ==
    IF lines = << >> THEN << >>
    ELSE LET r == parse_line(p, Head(lines)) IN r.events \o Classified(r.parser, Tail(lines))

\* C38: a second fresh classifier fed the lines the first one was fed returns the very
\* events the first one returned, step identifiers and target identifiers included.
C38_Deterministic ==
    finalized = 0 => Classified(LogParser(1), fed_lines) = out

\* ------------------------------------------------------------ claims: trailing window

\* the non-empty lines among lines, stripped, in order
RECURSIVE NonEmpty(_)
NonEmpty(lines) ==
    IF lines = << >> THEN << >>
    ELSE (IF Strip(Head(lines)) = << >> THEN << >> ELSE << Strip(Head(lines)) >>)
         \o NonEmpty(Tail(lines))

\* the non-empty lines the process of job j has printed so far: what the transcript
\* holds after the header (the trailer is still in the write buffer)
OutputOf(j) ==
    NonEmpty(SubSeq(log_files[j].disk, Len(Header(j, task[j])) + 1, Len(log_files[j].disk)))

\* the last n elements of s, or all of s when it has fewer
LastN(s, n) == SubSeq(s, (IF Len(s) > n THEN Len(s) - n ELSE 0) + 1, Len(s))

\* C39: while a runner reads and decides, its trailing window holds at most 10 lines and
\* is the last min(10, n) of the n non-empty lines its process has printed, oldest first;
\* so a decided upload job is successful only if a success marker is among those last 10
\* lines, and carries the authentication message only if an authentication marker is.
C39_TrailingWindow ==
    \A j \in DOMAIN task :
        (task[j].pc \in {"read", "decide", "close"} /\ task[j].e = None) =>
            /\ Len(task[j].last_lines) <= 10
            /\ task[j].last_lines = LastN(OutputOf(j), 10)
            /\ (task[j].pc = "close" /\ task[j].job_type = "upload") =>
                  /\ JOBS_DB[j].status = "success" =>
                        SuccessMarker(LastN(OutputOf(j), 10))
                  /\ JOBS_DB[j].error = AuthError =>
                        WindowHas(LastN(OutputOf(j), 10), <<"Authentication", "invalid">>)

\* an upload job printed a success marker and then eleven plain lines, exited 0 with the
\* firmware in place, and has failed with the generic message
C39_Witness ==
    \E j \in DOMAIN task :
        /\ task[j].pc = "close" /\ task[j].job_type = "upload" /\ task[j].returncode = 0
        /\ Len(OutputOf(j)) = 12
        /\ OutputOf(j)[1] = Strip(UploadedLine)
        /\ ~SuccessMarker(task[j].last_lines)
        /\ JOBS_DB[j].status = "failed" /\ JOBS_DB[j].error = GenericError

\* ------------------------------------------------------------ claims: job kind

\* the record of job j asks for an upload and names a target
Flashing(j) == JOBS_DB[j].job_type = "upload" /\ JOBS_DB[j].target_device # None

\* C40: the command a runner starts, as its transcript header records it, is the
\* device-flashing command exactly when the job's record has kind upload and a target;
\* every other job, an upload without target included, runs the compile command and is
\* judged as a compile job: when its process exits with code zero the success test is
\* passed whatever the output holds, so it ends in success, or in failed with the
\* artifact-not-found message.
C40_CommandByKind ==
    \A j \in DOMAIN task : j \in DOMAIN log_files =>
        /\ Completed(j) =>
              \E i \in DOMAIN log_files[j].disk :
                  StartsWith(log_files[j].disk[i], <<"Command", ":">>)
        /\ \A i \in DOMAIN log_files[j].disk :
              StartsWith(log_files[j].disk[i], <<"Command", ":">>) =>
                  /\ Flashing(j) =>
                        SubSeq(log_files[j].disk[i], 3, 6)
                            = <<"platformio", "run", "--target", "upload">>
                  /\ ~Flashing(j) =>
                        SubSeq(log_files[j].disk[i], 3, 4) = <<"esphome", "compile">>
        /\ (~Flashing(j) /\ Completed(j) /\ task[j].returncode = 0) =>
              \/ JOBS_DB[j].status = "success"
              \/ JOBS_DB[j].error = NotFoundError(JOBS_DB[j].project_dir)

\* an upload job without a target printed no success marker, exited 0 and has succeeded,
\* and an upload job with a target was run with the flashing command
C40_Witness ==
    /\ \E j \in DOMAIN task :
          /\ JOBS_DB[j].job_type = "upload" /\ JOBS_DB[j].target_device = None
          /\ Completed(j) /\ ~SuccessMarker(task[j].last_lines)
          /\ JOBS_DB[j].status = "success"
    /\ \E j \in DOMAIN task : Flashing(j) /\ j \in DOMAIN log_files

====
